---- MODULE Spec2Model ----
(***************************************************************************)
(* BibTeX ingestion and deduplication pipeline of SCIS-LiSA.               *)
(*                                                                         *)
(*   parsers/bibtex_parser.py        BibTeXParser                          *)
(*   services/ingestion_service.py   DatabaseIngestionService              *)
(*   api/v1/endpoints/admin.py       POST /ingest-data, background task    *)
(*   utils/merge_faculty_duplicates.py   merge of duplicate authors        *)
(*   references/fetch_dblp_publications.py   fetch with retry, file names  *)
(*                                                                         *)
(* Strings the code computes on (author names, file names, PIDs) are       *)
(* sequences of tokens, so that normalisation, splitting and joining are   *)
(* computed the way the code computes them.  Tables are sequences of rows; *)
(* a row's id is its index.                                                *)
(***************************************************************************)
EXTENDS Integers, Sequences, FiniteSets, Bags, TLC

\* Number of POST /ingest-data requests that are accepted in one behaviour.
MaxRuns == 2

\* Number of files ingested in one behaviour, over all runs.
MaxFileSteps == 2

\* direct calls of one operation (get_or_create_author, parse_bib_file) in a
\* behaviour
MaxCalls == 3

\* entries in a file handed to parse_bib_file directly
MaxFileLen == 3

\* Python None for string columns, for dblp_pid (falsy like '') and for year.
None == "None"
NoPid == <<>>
NoYear == -1

-----------------------------------------------------------------------------
(* String helpers *)

RECURSIVE LStrip(_)
LStrip(s) == IF s # <<>> /\ Head(s) = " " THEN LStrip(Tail(s)) ELSE s

RECURSIVE RStrip(_)
RStrip(s) == IF s # <<>> /\ s[Len(s)] = " " THEN RStrip(SubSeq(s, 1, Len(s) - 1)) ELSE s

\* str.strip()
Strip(s) == RStrip(LStrip(s))

RECURSIVE Squeeze(_)
Squeeze(s) ==
    IF Len(s) < 2 THEN s
    ELSE IF s[1] = " " /\ s[2] = " " THEN Squeeze(Tail(s))
    ELSE <<s[1]>> \o Squeeze(Tail(s))

\* ' '.join(s.split())
JoinSplit(s) == Squeeze(Strip(s))

\* str.lower(), on the letters that occur in the modelled names
LowerChar(c) ==
    CASE c = "A" -> "a"
      [] c = "B" -> "b"
      [] c = "C" -> "c"
      [] c = "D" -> "d"
      [] c = "F" -> "f"
      [] OTHER -> c

Lower(s) == [i \in 1..Len(s) |-> LowerChar(s[i])]

IsNotDotComma(c) == c \notin {".", ","}

\* DatabaseIngestionService.normalize_name
normalize_name(name) ==
    IF name = <<>> THEN <<>>
    ELSE Strip(SelectSeq(Lower(JoinSplit(name)), IsNotDotComma))

\* str.upper() on the DOIs that occur in the modelled entries
Upper(d) == IF d = "d1" THEN "D1" ELSE d

-----------------------------------------------------------------------------
(* The faculty roster (references/faculty_data.json after                  *)
(* load_faculty_mapping) and the raw author names of the bibliography.     *)

AliceName == <<"A", " ", "F">>
AliceDotted == <<"A", ".", " ", "F">>
AliceReordered == <<"F", " ", "A">>
BobName == <<"B", " ", "C">>
CarolName == <<"C", " ", "D">>

PidAlice == <<"94", "/", "4013">>
PidBob == <<"01", "/", "1744">>

\* load_faculty_mapping(...)['by_pid']
pid_mapping ==
    (PidAlice :> [faculty_name |-> AliceName, email |-> "alice@x", phone |-> None,
                  designation |-> "Professor"])
    @@ (PidBob :> [faculty_name |-> BobName, email |-> None, phone |-> "040",
                   designation |-> None])

\* The physical person a raw name string denotes (ground truth, used only to
\* state properties): the roster PID of the person, or NoPid for an outsider.
PersonOf(name) ==
    IF name \in {AliceName, AliceDotted, AliceReordered} THEN PidAlice
    ELSE IF name = BobName THEN PidBob
    ELSE NoPid

-----------------------------------------------------------------------------
(* Bibliography entries as bibtexparser hands them to parse_bib_file, and  *)
(* the files of the dataset directory.                                     *)

MkEntry(id, doi, year, author, journal, booktitle) ==
    [ID |-> id, doi |-> doi, year |-> year, author |-> author,
     journal |-> journal, booktitle |-> booktitle]

EntryK1 == MkEntry("K1", "d1", 2023, <<AliceName, BobName>>, "J1", "")
\* the same key re-derived with another DOI
EntryK1OtherDoi == MkEntry("K1", "D2", 2023, <<AliceName, BobName>>, "J1", "")
\* the same two authors listed in the other order
EntryK2 == MkEntry("K2", "", 2022, <<BobName, AliceName>>, "", "Conf")
\* an author listed twice (dotted and plain), no year, the DOI of K1
EntryK3 == MkEntry("K3", "D1", NoYear, <<AliceDotted, AliceName, CarolName>>, "J1", "")
\* a name variant of a roster member
EntryK4 == MkEntry("K4", "", 2021, <<AliceReordered, CarolName>>, "", "")
\* an entry without a key
EntryNoKey == MkEntry("", "", 2023, <<CarolName>>, "", "")

Entries == {EntryK1, EntryK1OtherDoi, EntryK2, EntryK3, EntryK4, EntryNoKey}

\* File stems (name without ".bib").
FileAlice == <<"94", "_", "4013">>
FileAliceAgain == <<"94", "_", "4013", "_", "1">>
FileBob == <<"01", "_", "1744", "_", "bob">>
FileOther == <<"55", "_", "66">>

FileNames == {FileAlice, FileAliceAgain, FileBob, FileOther}

MkFile(name, content) == [name |-> name, content |-> content]

\* The files a dataset directory may hold.  A directory holds at most one file
\* of each name; what a name holds may differ from one run to the next.
Files ==
    { MkFile(FileAlice, <<EntryK1, EntryNoKey, EntryK4>>),
      MkFile(FileAlice, <<EntryK1, EntryK1OtherDoi>>),
      MkFile(FileAliceAgain, <<EntryK3, EntryK1OtherDoi>>),
      MkFile(FileAliceAgain, <<EntryK1, EntryNoKey, EntryK4>>),
      MkFile(FileBob, <<EntryK1OtherDoi, EntryK2>>),
      MkFile(FileBob, <<EntryK2, EntryK1, EntryK3>>),
      MkFile(FileOther, <<EntryNoKey, EntryK1>>),
      MkFile(FileOther, <<EntryK4, EntryK3>>) }

-----------------------------------------------------------------------------
(* BibTeXParser.parse_bib_file: within-file duplicate suppression.         *)

RECURSIVE ParseLoop(_, _, _, _, _, _)
ParseLoop(entries, publications, total_count, duplicate_count, local_seen_keys, local_seen_dois) ==
    IF entries = <<>>
    THEN [publications |-> publications, total_count |-> total_count,
          duplicate_count |-> duplicate_count]
    ELSE LET entry == Head(entries)
             rest == Tail(entries)
             dblp_key == entry.ID
             doi == Upper(entry.doi)
         IN  IF dblp_key = ""
             THEN ParseLoop(rest, publications, total_count + 1, duplicate_count + 1,
                            local_seen_keys, local_seen_dois)
             ELSE IF dblp_key \in local_seen_keys
             THEN ParseLoop(rest, publications, total_count + 1, duplicate_count + 1,
                            local_seen_keys, local_seen_dois)
             ELSE IF doi # "" /\ doi \in local_seen_dois
             THEN ParseLoop(rest, publications, total_count + 1, duplicate_count + 1,
                            local_seen_keys, local_seen_dois)
             ELSE ParseLoop(rest,
                            Append(publications,
                                   [dblp_key |-> dblp_key, doi |-> doi,
                                    year |-> entry.year, authors |-> entry.author,
                                    journal |-> entry.journal,
                                    booktitle |-> entry.booktitle]),
                            total_count + 1, duplicate_count,
                            local_seen_keys \cup {dblp_key},
                            IF doi # "" THEN local_seen_dois \cup {doi}
                                        ELSE local_seen_dois)

\* a plausible slip: only the key is compared, a repeated DOI passes
RECURSIVE ParseLoopKeysOnly(_, _, _, _, _)
ParseLoopKeysOnly(entries, publications, total_count, duplicate_count, local_seen_keys) ==
    IF entries = <<>>
    THEN [publications |-> publications, total_count |-> total_count,
          duplicate_count |-> duplicate_count]
    ELSE IF Head(entries).ID = "" \/ Head(entries).ID \in local_seen_keys
    THEN ParseLoopKeysOnly(Tail(entries), publications, total_count + 1,
                           duplicate_count + 1, local_seen_keys)
    ELSE ParseLoopKeysOnly(Tail(entries),
                           Append(publications,
                                  [dblp_key |-> Head(entries).ID,
                                   doi |-> Upper(Head(entries).doi),
                                   year |-> Head(entries).year,
                                   authors |-> Head(entries).author,
                                   journal |-> Head(entries).journal,
                                   booktitle |-> Head(entries).booktitle]),
                           total_count + 1, duplicate_count,
                           local_seen_keys \cup {Head(entries).ID})

parse_bib_file_keys_only(content) == ParseLoopKeysOnly(content, <<>>, 0, 0, {})

parse_bib_file(content) == ParseLoop(content, <<>>, 0, 0, {}, {})

-----------------------------------------------------------------------------
(* Provenance tag of a file, derived from its name (admin.py).             *)

\* str.split('_'): the parts between the separators, each a token sequence
RECURSIVE SplitUnderscore(_, _)
SplitUnderscore(s, cur) ==
    IF s = <<>> THEN <<cur>>
    ELSE IF Head(s) = "_" THEN <<cur>> \o SplitUnderscore(Tail(s), <<>>)
    ELSE SplitUnderscore(Tail(s), Append(cur, Head(s)))

\* '_'.join(parts)
RECURSIVE JoinUnderscore(_)
JoinUnderscore(parts) ==
    IF parts = <<>> THEN <<>>
    ELSE IF Len(parts) = 1 THEN parts[1]
    ELSE parts[1] \o <<"_">> \o JoinUnderscore(Tail(parts))

\* s.replace('_', '/', 1)
RECURSIVE ReplaceFirstUnderscore(_)
ReplaceFirstUnderscore(s) ==
    IF s = <<>> THEN <<>>
    ELSE IF Head(s) = "_" THEN <<"/">> \o Tail(s)
    ELSE <<Head(s)>> \o ReplaceFirstUnderscore(Tail(s))

AlphaTokens == {"bob", "alok"}
DigitTokens == {"1", "2"}

IsNotDash(c) == c # "-"

\* part.replace('-', '').isalpha()
IsAlphaPart(part) ==
    LET p == SelectSeq(part, IsNotDash)
    IN  p # <<>> /\ \A i \in 1..Len(p) : p[i] \in AlphaTokens

\* part.isdigit() and len(part) == 1
IsSingleDigit(part) == Len(part) = 1 /\ part[1] \in DigitTokens

DropLast(parts) == SubSeq(parts, 1, Len(parts) - 1)

\* admin.py: source_pid of a file stem
source_pid_of(filename) ==
    LET parts0 == SplitUnderscore(filename, <<>>)
        parts1 == IF Len(parts0) >= 3 /\ IsAlphaPart(parts0[Len(parts0)])
                  THEN DropLast(parts0) ELSE parts0
        parts2 == IF Len(parts1) >= 2 /\ IsSingleDigit(parts1[Len(parts1)])
                  THEN DropLast(parts1) ELSE parts1
    IN  ReplaceFirstUnderscore(JoinUnderscore(parts2))

-----------------------------------------------------------------------------
(* DatabaseIngestionService.  The operators below take and return a record *)
(* s holding the tables seen through the session (authors, pubs,           *)
(* pub_authors, collabs, venues), the service's caches and statistics, and *)
(* two observation fields (resolved_plain, promotions) that record which   *)
(* resolutions were asked for.                                             *)

NoData == [faculty_name |-> <<>>, email |-> None, phone |-> None, designation |-> None]

\* Python: x or y
Or(x, y) == IF x # None /\ x # "" THEN x ELSE y

\* Python truthiness of an optional int
Truthy(year) == year # NoYear /\ year # 0

Min(S) == CHOOSE x \in S : \A y \in S : x <= y
Max(S) == CHOOSE x \in S : \A y \in S : x >= y

\* Query.first() without ORDER BY: the database may return any matching row;
\* pick selects the lowest or the highest id.
First(matches, pick) == IF pick = "lo" THEN Min(matches) ELSE Max(matches)

Picks == {"lo", "hi"}

\* the choice is observable only when two author rows share a normalised name
PicksFor(authors) ==
    IF \E i, j \in 1..Len(authors) :
          i # j /\ authors[i].normalized_name = authors[j].normalized_name
    THEN Picks ELSE {"lo"}

EmptyStats ==
    [publications_added |-> 0, publications_skipped |-> 0, authors_added |-> 0,
     authors_updated |-> 0, collaborations_added |-> 0, venues_added |-> 0,
     errors |-> 0]

Bump(stats, field) == [stats EXCEPT ![field] = @ + 1]

\* a plausible slip: the query always filters on the normalised name
AuthorMatchesByName(authors_table, normalized, dblp_pid) ==
    {i \in 1..Len(authors_table) : authors_table[i].normalized_name = normalized}

\* Author rows found by get_or_create_author's query
AuthorMatches(authors, normalized, dblp_pid) ==
    IF dblp_pid # NoPid
    THEN {i \in 1..Len(authors) : authors[i].dblp_pid = dblp_pid}
    ELSE {i \in 1..Len(authors) : authors[i].normalized_name = normalized}

\* Observation of a resolution request (no effect on the program's state)
Observe(s, normalized, is_faculty, dblp_pid) ==
    [s EXCEPT
       !.resolved_plain =
           IF ~is_faculty /\ dblp_pid = NoPid THEN @ \cup {normalized} ELSE @,
       !.promotions =
           IF is_faculty /\ dblp_pid # NoPid /\ normalized \in s.resolved_plain
           THEN @ \cup {<<normalized, dblp_pid>>} ELSE @]

\* get_or_create_author once the name is normalised: cache, then query, then
\* insert; returns the new state and the id of the author
ResolveAuthor(s, author_name, normalized, is_faculty, dblp_pid, faculty_data, pick) ==
    LET cache_key == normalized \o <<"_">> \o dblp_pid
        matches == AuthorMatches(s.authors, normalized, dblp_pid)
    IN  IF cache_key \in DOMAIN s.author_cache
        THEN [s |-> s, author |-> s.author_cache[cache_key]]
        ELSE IF matches # {}
        THEN LET id == First(matches, pick)
                 author == s.authors[id]
                 promoted ==
                     IF faculty_data # NoData
                     THEN [author EXCEPT
                             !.is_faculty = TRUE,
                             !.email = Or(faculty_data.email, author.email),
                             !.phone = Or(faculty_data.phone, author.phone),
                             !.designation = Or(faculty_data.designation,
                                                author.designation)]
                     ELSE [author EXCEPT !.is_faculty = TRUE]
             IN  IF is_faculty /\ ~author.is_faculty
                 THEN [s |-> [s EXCEPT !.authors[id] = promoted,
                                       !.stats = Bump(@, "authors_updated"),
                                       !.author_cache = (cache_key :> id) @@ @],
                       author |-> id]
                 ELSE [s |-> [s EXCEPT !.author_cache = (cache_key :> id) @@ @],
                       author |-> id]
        ELSE LET id == Len(s.authors) + 1
                 author ==
                     [name |-> author_name,
                      normalized_name |-> normalized,
                      dblp_pid |-> dblp_pid,
                      is_faculty |-> is_faculty,
                      email |-> faculty_data.email,
                      phone |-> faculty_data.phone,
                      designation |-> faculty_data.designation,
                      department |-> IF is_faculty THEN "SCIS" ELSE None,
                      total_publications |-> 0,
                      total_collaborations |-> 0]
             IN  [s |-> [s EXCEPT !.authors = Append(@, author),
                                   !.stats = Bump(@, "authors_added"),
                                   !.author_cache = (cache_key :> id) @@ @],
                  author |-> id]

get_or_create_author(s, author_name, is_faculty, dblp_pid, faculty_data, pick) ==
    ResolveAuthor(Observe(s, normalize_name(author_name), is_faculty, dblp_pid),
                  author_name, normalize_name(author_name), is_faculty, dblp_pid,
                  faculty_data, pick)

\* get_or_create_venue: returns the new state and the id of the venue
get_or_create_venue(s, venue_name, venue_type) ==
    LET found == {i \in 1..Len(s.venues) : s.venues[i].name = venue_name}
    IN  IF venue_name \in DOMAIN s.venue_cache
        THEN [s |-> s, venue |-> s.venue_cache[venue_name]]
        ELSE IF found # {}
        THEN LET id == Min(found)
             IN  [s |-> [s EXCEPT !.venue_cache = (venue_name :> id) @@ @],
                  venue |-> id]
        ELSE LET id == Len(s.venues) + 1
             IN  [s |-> [s EXCEPT
                           !.venues = Append(@, [name |-> venue_name,
                                                 venue_type |-> venue_type,
                                                 total_publications |-> 0,
                                                 faculty_publications |-> 0]),
                           !.stats = Bump(@, "venues_added"),
                           !.venue_cache = (venue_name :> id) @@ @],
                  venue |-> id]

-----------------------------------------------------------------------------
(* _create_collaborations *)

\* for i, author1 in enumerate(authors): for author2 in authors[i+1:]
RECURSIVE PairsFrom(_, _, _)
PairsFrom(authors, i, j) ==
    IF i >= Len(authors) THEN <<>>
    ELSE IF j > Len(authors) THEN PairsFrom(authors, i + 1, i + 2)
    ELSE <<<<authors[i], authors[j]>>>> \o PairsFrom(authors, i, j + 1)

AuthorPairs(authors) == PairsFrom(authors, 1, 2)

\* a plausible slip: the pair is stored in the order of the author list
PairAsListed(id1, id2) == <<id1, id2>>

\* (author1.id, author2.id) if author1.id < author2.id else (author2.id, author1.id)
CanonicalPair(id1, id2) == IF id1 < id2 THEN <<id1, id2>> ELSE <<id2, id1>>

\* the year-range update of an existing edge
WidenYears(collab, year) ==
    IF Truthy(year)
    THEN LET first == IF ~Truthy(collab.first_collaboration_year)
                         \/ year < collab.first_collaboration_year
                      THEN year ELSE collab.first_collaboration_year
             last == IF ~Truthy(collab.last_collaboration_year)
                        \/ year > collab.last_collaboration_year
                     THEN year ELSE collab.last_collaboration_year
         IN  [collab EXCEPT !.first_collaboration_year = first,
                            !.last_collaboration_year = last]
    ELSE collab

\* a plausible slip: only the edges in which the author comes first are counted
CollabCountAsFirst(collabs_table, id) ==
    Cardinality({k \in 1..Len(collabs_table) : collabs_table[k].author1_id = id})

\* query(Collaboration).filter(or_(author1_id == id, author2_id == id)).count()
CollabCount(collabs, id) ==
    Cardinality({k \in 1..Len(collabs) :
                   collabs[k].author1_id = id \/ collabs[k].author2_id = id})

\* the body of the pair loop
RecordPair(s, author1, author2, year, pick) ==
    LET pair == CanonicalPair(author1, author2)
        found == {k \in 1..Len(s.collabs) :
                    /\ s.collabs[k].author1_id = pair[1]
                    /\ s.collabs[k].author2_id = pair[2]}
        s1 == IF found # {}
              THEN LET k == First(found, pick)
                   IN  [s EXCEPT !.collabs[k] =
                           WidenYears([@ EXCEPT !.collaboration_count = @ + 1], year)]
              ELSE [s EXCEPT
                      !.collabs = Append(@, [author1_id |-> pair[1],
                                             author2_id |-> pair[2],
                                             collaboration_count |-> 1,
                                             first_collaboration_year |-> year,
                                             last_collaboration_year |-> year]),
                      !.stats = Bump(@, "collaborations_added")]
        s2 == [s1 EXCEPT !.authors[author1].total_collaborations =
                             CollabCount(s1.collabs, author1)]
    IN  [s2 EXCEPT !.authors[author2].total_collaborations =
                       CollabCount(s1.collabs, author2)]

RECURSIVE RecordPairs(_, _, _, _)
RecordPairs(s, pairs, year, pick) ==
    IF pairs = <<>> THEN s
    ELSE RecordPairs(RecordPair(s, Head(pairs)[1], Head(pairs)[2], year, pick),
                     Tail(pairs), year, pick)

\* a plausible slip: the early return also leaves out two-author publications
create_collaborations_from_three(s, authors, year, pick) ==
    IF Len(authors) <= 2 THEN s
    ELSE RecordPairs(s, AuthorPairs(authors), year, pick)

create_collaborations(s, authors, year, pick) ==
    IF Len(authors) < 2 THEN s
    ELSE RecordPairs(s, AuthorPairs(authors), year, pick)

-----------------------------------------------------------------------------
(* create_publication *)

SeqToSet(q) == {q[i] : i \in 1..Len(q)}

\* the roster member of this publication's source PIDs whose normalised name
\* equals the author's, if any
FacultyMatch(author_name, faculty_pids_in_pub) ==
    {fac_pid \in faculty_pids_in_pub :
        normalize_name(author_name) = normalize_name(pid_mapping[fac_pid].faculty_name)}

\* dblp_pid handed to get_or_create_author for a listed author: the roster
\* member's pid on a match, None otherwise
FacultyPidOf(author_name, faculty_pids_in_pub) ==
    LET hit == FacultyMatch(author_name, faculty_pids_in_pub)
    IN  IF hit # {} THEN CHOOSE fac_pid \in hit : TRUE ELSE NoPid

\* faculty_data handed to get_or_create_author
FacultyDataOf(dblp_pid) == IF dblp_pid # NoPid THEN pid_mapping[dblp_pid] ELSE NoData

\* the resolution of one listed author
ResolveListed(s, author_name, dblp_pid, pick) ==
    get_or_create_author(s, author_name, dblp_pid # NoPid, dblp_pid,
                         FacultyDataOf(dblp_pid), pick)

\* if author not in authors_in_pub: append and insert the association
AttachOnce(r, pub_id, position, authors_in_pub) ==
    IF r.author \in SeqToSet(authors_in_pub)
    THEN [s |-> r.s, authors_in_pub |-> authors_in_pub]
    ELSE [s |-> [r.s EXCEPT !.pub_authors =
                    @ \cup {[publication_id |-> pub_id, author_id |-> r.author,
                             author_position |-> position]}],
          authors_in_pub |-> Append(authors_in_pub, r.author)]

\* the author loop: resolves each listed author and attaches it once
RECURSIVE AttachAuthors(_, _, _, _, _, _, _)
AttachAuthors(s, pub_id, names, position, authors_in_pub, faculty_pids_in_pub, pick) ==
    IF names = <<>> THEN [s |-> s, authors_in_pub |-> authors_in_pub]
    ELSE LET a == AttachOnce(
                      ResolveListed(s, Head(names),
                                    FacultyPidOf(Head(names), faculty_pids_in_pub),
                                    pick),
                      pub_id, position, authors_in_pub)
         IN  AttachAuthors(a.s, pub_id, Tail(names), position + 1,
                           a.authors_in_pub, faculty_pids_in_pub, pick)

\* query(Publication).join(publication_authors).filter(author_id == id).count()
PublicationCount(s, id) ==
    Cardinality({p \in 1..Len(s.pubs) :
                   \E pa \in s.pub_authors :
                       pa.publication_id = p /\ pa.author_id = id})

RECURSIVE RefreshPublicationCounts(_, _)
RefreshPublicationCounts(s, authors) ==
    IF authors = <<>> THEN s
    ELSE RefreshPublicationCounts(
             [s EXCEPT !.authors[Head(authors)].total_publications =
                           PublicationCount(s, Head(authors))],
             Tail(authors))

\* a plausible slip: a stored publication counts as the same only if its DOI
\* matches too
ExistingByKeyAndDoi(table, pub_data) ==
    {p \in 1..Len(table) :
        table[p].dblp_key = pub_data.dblp_key /\ table[p].doi = pub_data.doi}

\* query(Publication).filter(Publication.dblp_key == dblp_key)
Existing(table, pub_data) ==
    {p \in 1..Len(table) : table[p].dblp_key = pub_data.dblp_key}

\* a plausible slip: the duplicate branch appends the tag to the stored
\* provenance list without looking whether it is there
SkipDuplicateAppendingTag(s, pub_data) ==
    LET p == Min(Existing(s.pubs, pub_data))
    IN  [s EXCEPT !.pubs[p].source_pids = Append(@, pub_data.source_pid),
                  !.stats = Bump(@, "publications_skipped")]

\* a plausible slip: the duplicate branch refreshes the stored record from the
\* new sighting
SkipDuplicateRefreshing(s, pub_data) ==
    LET p == Min(Existing(s.pubs, pub_data))
    IN  [s EXCEPT !.pubs[p].doi = pub_data.doi,
                  !.pubs[p].year = pub_data.year,
                  !.stats = Bump(@, "publications_skipped")]

\* a plausible slip: the duplicate branch returns without counting
SkipDuplicateUncounted(s, pub_data) == s

\* the duplicate branch: count the sighting as skipped, return False
SkipDuplicate(s, pub_data) == [s EXCEPT !.stats = Bump(@, "publications_skipped")]

\* the venue of the entry: its journal, else its booktitle, else none (0)
ResolveVenue(s, pub_data) ==
    IF pub_data.journal # ""
    THEN get_or_create_venue(s, pub_data.journal, "journal")
    ELSE IF pub_data.booktitle # ""
    THEN get_or_create_venue(s, pub_data.booktitle, "conference")
    ELSE [s |-> s, venue |-> 0]

\* Publication(...): the new row
NewPublication(pub_data) ==
    [dblp_key |-> pub_data.dblp_key,
     doi |-> pub_data.doi,
     year |-> pub_data.year,
     journal |-> pub_data.journal,
     booktitle |-> pub_data.booktitle,
     author_count |-> Len(pub_data.authors),
     has_faculty_author |-> FALSE,
     source_pid |-> pub_data.source_pid,
     source_pids |-> pub_data.source_pids]

\* the source PIDs of the entry that are on the roster
FacultyPidsInPub(pub_data) == SeqToSet(pub_data.source_pids) \cap DOMAIN pid_mapping

\* venue statistics of the new publication
UpdateVenueStats(s, venue, has_faculty) ==
    IF venue # 0
    THEN [s EXCEPT !.venues[venue].total_publications = @ + 1,
                   !.venues[venue].faculty_publications =
                       IF has_faculty THEN @ + 1 ELSE @]
    ELSE s

\* after the author loop: the faculty flag, venue statistics, collaborations,
\* author statistics, publications_added
FinishPublication(a, venue, pub_id, pub_data, pick) ==
    [RefreshPublicationCounts(
         create_collaborations(
             UpdateVenueStats(
                 [a.s EXCEPT !.pubs[pub_id].has_faculty_author =
                                 FacultyPidsInPub(pub_data) # {}],
                 venue, FacultyPidsInPub(pub_data) # {}),
             a.authors_in_pub, pub_data.year, pick),
         a.authors_in_pub)
       EXCEPT !.stats = Bump(@, "publications_added")]

\* the new-publication branch, the venue being resolved
AddPublication(v, pub_data, pick) ==
    FinishPublication(
        AttachAuthors([v.s EXCEPT !.pubs = Append(@, NewPublication(pub_data))],
                      Len(v.s.pubs) + 1, pub_data.authors, 1, <<>>,
                      FacultyPidsInPub(pub_data), pick),
        v.venue, Len(v.s.pubs) + 1, pub_data, pick)

create_publication(s, pub_data, pick) ==
    IF Existing(s.pubs, pub_data) # {}
    THEN SkipDuplicate(s, pub_data)
    ELSE AddPublication(ResolveVenue(s, pub_data), pub_data, pick)

\* ingest_publications: every entry in order, then the final commit
RECURSIVE ingest_publications(_, _, _)
ingest_publications(s, publications, pick) ==
    IF publications = <<>> THEN s
    ELSE ingest_publications(create_publication(s, Head(publications), pick),
                             Tail(publications), pick)

\* admin.py: the per-file body of the background task
TagPublications(publications, source_pid) ==
    [i \in 1..Len(publications) |->
        [dblp_key |-> publications[i].dblp_key,
         doi |-> publications[i].doi,
         year |-> publications[i].year,
         authors |-> publications[i].authors,
         journal |-> publications[i].journal,
         booktitle |-> publications[i].booktitle,
         source_pid |-> source_pid,
         source_pids |-> <<source_pid>>]]

IngestOneFile(s, file, pick) ==
    LET parsed == parse_bib_file(file.content)
        source_pid == source_pid_of(file.name)
    IN  ingest_publications(s, TagPublications(parsed.publications, source_pid), pick)

-----------------------------------------------------------------------------
(* The state machine: POST /ingest-data and the background task            *)
(* ingest_data_background, over one shared database.                       *)

VARIABLES
    authors,        \* table authors
    pubs,           \* table publications
    pub_authors,    \* table publication_authors
    collabs,        \* table collaborations
    venues,         \* table venues
    data_source,    \* total_records of the DBLP DataSource row, -1: no row
    task_status,    \* task_status["ingest"]: status, message and published stats
    tasks,          \* bag of background tasks that have not returned: position,
                    \* files processed, the service's caches and statistics
    accepted,       \* number of accepted requests
    resolved_plain, \* observation: names resolved as plain co-authors
    promotions,     \* observation: faculty resolutions of such names
    sightings,      \* observation: <<dblp_key, doi, tag>> handed to create_publication
    ingested,       \* observation: <<tag, content>> of the files ingested
    file_steps,     \* number of files ingested so far
    calls,          \* number of direct calls so far
    parser,         \* the BibTeXParser instance: seen_keys, seen_dois, seen_titles
    parse_result,   \* what the last direct parse_bib_file call was given and returned
    session,        \* a direct ingest_publications call and its open transaction,
                    \* what its last create_publication call returned
    derived,        \* what the last tag derivation was given and returned
    fetch,          \* a fetch_dblp_bib call: position, attempt, requests sent,
                    \* seconds slept, responses received, value returned
    recordings,     \* observation: the direct _create_collaborations calls, in order
    bib_files       \* the files of a whole run, in the order glob returned them

vars == <<authors, pubs, pub_authors, collabs, venues, data_source, task_status,
          tasks, accepted, resolved_plain, promotions, sightings, ingested,
          file_steps, calls, parser, parse_result, session,
          derived, fetch, recordings, bib_files>>

EmptyCache == [x \in {} |-> 0]

\* BibTeXParser(): the instance's trackers
NewParser == [seen_keys |-> {}, seen_dois |-> {}, seen_titles |-> {}]

\* no direct parse_bib_file call yet
NotParsed == [content |-> <<>>, publications |-> <<>>, total_count |-> 0,
              duplicate_count |-> 0]

\* DatabaseIngestionService(db) over the given tables
FreshService(a, p, pa, c, v) ==
    [authors |-> a, pubs |-> p, pub_authors |-> pa, collabs |-> c, venues |-> v,
     author_cache |-> EmptyCache, venue_cache |-> EmptyCache, stats |-> EmptyStats,
     resolved_plain |-> {}, promotions |-> {}]

\* no tag derivation yet
NotDerived == [by |-> "none", filename |-> <<>>, pid |-> <<>>, admin |-> <<>>, parser |-> <<>>]

\* no fetch_dblp_bib call yet
NoFetch == [pc |-> "none", max_retries |-> 0, attempt |-> 0, requests |-> 0, waited |-> 0, responses |-> <<>>, result |-> "none"]

\* no direct ingest_publications call yet
NoSession ==
    [pc |-> "none", queue |-> <<>>, s |-> FreshService(<<>>, <<>>, {}, <<>>, <<>>),
     active |-> TRUE, counted |-> {}, raced |-> {}, handed |-> 0, returned |-> FALSE]

\* a background task added by BackgroundTasks.add_task, not yet started
NewTask == [pc |-> "queued", done |-> {}, author_cache |-> EmptyCache,
            venue_cache |-> EmptyCache, stats |-> EmptyStats]

Init ==
    /\ authors = <<>>
    /\ pubs = <<>>
    /\ pub_authors = {}
    /\ collabs = <<>>
    /\ venues = <<>>
    /\ data_source = -1
    /\ task_status = [status |-> "idle", message |-> "", stats |-> EmptyStats]
    /\ tasks = EmptyBag
    /\ accepted = 0
    /\ resolved_plain = {}
    /\ promotions = {}
    /\ sightings = {}
    /\ ingested = {}
    /\ file_steps = 0
    /\ calls = 0
    /\ parser = NewParser
    /\ parse_result = NotParsed
    /\ session = NoSession
    /\ derived = NotDerived
    /\ fetch = NoFetch
    /\ recordings = <<>>
    /\ bib_files = <<>>

\* the record the service operators work on, for task t
ServiceState(t) ==
    [authors |-> authors, pubs |-> pubs, pub_authors |-> pub_authors,
     collabs |-> collabs, venues |-> venues,
     author_cache |-> t.author_cache, venue_cache |-> t.venue_cache,
     stats |-> t.stats,
     resolved_plain |-> resolved_plain, promotions |-> promotions]

Tables == <<authors, pubs, pub_authors, collabs, venues>>
Observations == <<resolved_plain, promotions, sightings, ingested, file_steps, calls,
                  parser, parse_result, session,
                  derived, fetch, recordings, bib_files>>

One(t) == SetToBag({t})

\* POST /ingest-data while no run is marked running: accepted
IngestData ==
    /\ task_status.status # "running"
    /\ accepted < MaxRuns
    /\ accepted' = accepted + 1
    /\ tasks' = tasks (+) One(NewTask)
    /\ task_status' = [status |-> "starting", message |-> "Initializing...",
                        stats |-> EmptyStats]
    /\ UNCHANGED <<Tables, data_source, Observations>>

\* POST /ingest-data while a run is marked running: HTTP 409, nothing changes
IngestDataRejected ==
    /\ task_status.status = "running"
    /\ UNCHANGED vars

\* ingest_data_background starts: status := running
BgStart(t) ==
    /\ t.pc = "queued"
    /\ tasks' = (tasks (-) One(t)) (+) One([t EXCEPT !.pc = "scanning"])
    /\ task_status' = [task_status EXCEPT !.status = "running",
                                          !.message = "Scanning BibTeX files..."]
    /\ UNCHANGED <<Tables, data_source, accepted, Observations>>

\* a plausible slip: the DataSource row is refreshed before the checks
BgFatalAfterDataSource(t) ==
    /\ t.pc = "scanning"
    /\ tasks' = tasks (-) One(t)
    /\ data_source' = Len(pubs)
    /\ task_status' = [task_status EXCEPT !.status = "error",
                                          !.message = "Error: ..."]
    /\ UNCHANGED <<Tables, accepted, Observations>>

\* dataset path missing, no .bib file, or roster file missing
BgFatal(t) ==
    /\ t.pc = "scanning"
    /\ tasks' = tasks (-) One(t)
    /\ task_status' = [task_status EXCEPT !.status = "error",
                                          !.message = "Error: ..."]
    /\ UNCHANGED <<Tables, data_source, accepted, Observations>>

\* files found, roster loaded, service and parser created
BgScanOk(t) ==
    /\ t.pc = "scanning"
    /\ tasks' = (tasks (-) One(t)) (+) One([t EXCEPT !.pc = "ingesting"])
    /\ task_status' = [task_status EXCEPT !.message = "Found N BibTeX files"]
    /\ UNCHANGED <<Tables, data_source, accepted, Observations>>

\* what one iteration leaves behind: the session's tables, the service's
\* caches and statistics
FileDone(t, file, s) ==
    /\ authors' = s.authors
    /\ pubs' = s.pubs
    /\ pub_authors' = s.pub_authors
    /\ collabs' = s.collabs
    /\ venues' = s.venues
    /\ resolved_plain' = s.resolved_plain
    /\ promotions' = s.promotions
    /\ tasks' = (tasks (-) One(t)) (+)
                One([t EXCEPT !.done = @ \cup {file.name},
                              !.author_cache = s.author_cache,
                              !.venue_cache = s.venue_cache,
                              !.stats = s.stats])

\* one iteration of the loop over bib_files
BgFile(t, file, pick) ==
    /\ t.pc = "ingesting"
    /\ file.name \notin t.done
    /\ file_steps < MaxFileSteps
    /\ file_steps' = file_steps + 1
    /\ FileDone(t, file, IngestOneFile(ServiceState(t), file, pick))
    /\ LET tag == source_pid_of(file.name)
           parsed == parse_bib_file(file.content).publications
       IN  /\ sightings' = sightings \cup
                  {<<parsed[i].dblp_key, parsed[i].doi, tag>> : i \in 1..Len(parsed)}
           /\ ingested' = ingested \cup {<<tag, file.content>>}
    /\ task_status' = [task_status EXCEPT !.message = "Processing ..."]
    /\ UNCHANGED <<data_source, accepted, calls, parser, parse_result, session,
                   derived, fetch, recordings, bib_files>>

\* after the loop: commit, update_data_source, status := completed; the
\* session is closed and the service, with its caches, is dropped
BgFinish(t) ==
    /\ t.pc = "ingesting"
    /\ t.done # {}
    /\ tasks' = tasks (-) One(t)
    /\ data_source' = t.stats.publications_added
    /\ task_status' = [status |-> "completed",
                        message |-> "Ingestion completed successfully",
                        stats |-> t.stats]
    /\ UNCHANGED <<Tables, accepted, Observations>>

Next ==
    \/ IngestData
    \/ IngestDataRejected
    \/ \E t \in BagToSet(tasks) : BgStart(t)
    \/ \E t \in BagToSet(tasks) : BgFatal(t)
    \/ \E t \in BagToSet(tasks) : BgScanOk(t)
    \/ \E t \in BagToSet(tasks), file \in Files, pick \in PicksFor(authors) :
          BgFile(t, file, pick)
    \/ \E t \in BagToSet(tasks) : BgFinish(t)

Spec == Init /\ [][Next]_vars

-----------------------------------------------------------------------------
(* Properties *)

RowsNamed(normalized) ==
    {i \in 1..Len(authors) : authors[i].normalized_name = normalized}

\* C1 (faculty promotion): once a name has been resolved as a plain co-author
\* (is_faculty=False, no dblp_pid) and later as faculty with a dblp_pid, exactly
\* one Author row has that normalised name, and it is faculty and holds the pid.
C1_FacultyPromotion ==
    \A pr \in promotions :
        /\ Cardinality(RowsNamed(pr[1])) = 1
        /\ \A i \in RowsNamed(pr[1]) :
              authors[i].is_faculty /\ authors[i].dblp_pid = pr[2]

ProvenanceSizes(table) ==
    [p \in 1..Len(table) |-> Cardinality(SeqToSet(table[p].source_pids))]

\* C2 (idempotent re-ingestion): ingesting a file that was ingested before under
\* the same tag leaves the number of Publication rows and the size of every
\* publication's provenance set as they were: no row is duplicated and the tag
\* is not counted twice.
C2_IdempotentReingestion ==
    [][\A t \in BagToSet(tasks), file \in Files, pick \in Picks :
          (/\ <<source_pid_of(file.name), file.content>> \in ingested
           /\ BgFile(t, file, pick))
          => /\ Len(pubs') = Len(pubs)
             /\ ProvenanceSizes(pubs') = ProvenanceSizes(pubs)
             /\ \A p \in 1..Len(pubs) :
                   Len(pubs'[p].source_pids) = Len(pubs[p].source_pids)]_vars

\* a file has been ingested twice under the same tag
C2_Witness ==
    \E t \in BagToSet(tasks) :
        /\ t.stats.publications_skipped > 0
        /\ \E f, g \in Files :
              /\ f.name # g.name /\ f.content = g.content
              /\ source_pid_of(f.name) = source_pid_of(g.name)
              /\ {f.name, g.name} \subseteq t.done
              /\ Len(parse_bib_file(f.content).publications) = t.stats.publications_skipped

\* C3 (primary key wins): no two Publication rows share a dblp_key, also when
\* an entry with an existing key carries another DOI than the stored one.
C3_PrimaryKeyWins ==
    \A p, q \in 1..Len(pubs) : p # q => pubs[p].dblp_key # pubs[q].dblp_key

\* an entry was ingested whose key is stored with a different DOI
C3_Witness ==
    \E sg \in sightings : \E p \in 1..Len(pubs) :
        pubs[p].dblp_key = sg[1] /\ pubs[p].doi # sg[2]

\* C4 (provenance accrual): every tag under which an entry with a persisted
\* key was ingested is in that publication's provenance set.
C4_ProvenanceAccrual ==
    \A sg \in sightings : \A p \in 1..Len(pubs) :
        pubs[p].dblp_key = sg[1] => sg[3] \in SeqToSet(pubs[p].source_pids)

\* C5 (collaboration symmetry): every edge has author1_id < author2_id and
\* there is at most one edge per unordered pair of authors.
C5_CollaborationSymmetry ==
    /\ \A k \in 1..Len(collabs) : collabs[k].author1_id < collabs[k].author2_id
    /\ \A k, l \in 1..Len(collabs) :
          k # l => {collabs[k].author1_id, collabs[k].author2_id}
                   # {collabs[l].author1_id, collabs[l].author2_id}

Position(p, a) ==
    {pa.author_position : pa \in {x \in pub_authors :
                                     x.publication_id = p /\ x.author_id = a}}

\* two authors were recorded as (X, Y) on one publication and as (Y, X) on
\* another, and share one edge that counts both
C5_Witness ==
    \E p, q \in 1..Len(pubs) : \E x, y \in 1..Len(authors) :
        /\ \E i \in Position(p, x), j \in Position(p, y) : i < j
        /\ \E i \in Position(q, x), j \in Position(q, y) : j < i
        /\ \E k \in 1..Len(collabs) :
              /\ {collabs[k].author1_id, collabs[k].author2_id} = {x, y}
              /\ collabs[k].collaboration_count = 2

Attached(p, a) == \E pa \in pub_authors : pa.publication_id = p /\ pa.author_id = a

JointPublications(x, y) ==
    {p \in 1..Len(pubs) : Attached(p, x) /\ Attached(p, y)}

EdgesOf(x, y) ==
    {k \in 1..Len(collabs) : {collabs[k].author1_id, collabs[k].author2_id} = {x, y}}

\* C6 (edge count counts publications): for every pair of authors the edge's
\* collaboration_count is the number of persisted publications to which both
\* are attached (no edge when there is none).
C6_EdgeCountIsJointPublications ==
    \A x, y \in 1..Len(authors) :
        x < y =>
            IF JointPublications(x, y) = {}
            THEN EdgesOf(x, y) = {}
            ELSE \E k \in EdgesOf(x, y) :
                    /\ EdgesOf(x, y) = {k}
                    /\ collabs[k].collaboration_count
                           = Cardinality(JointPublications(x, y))

\* K1 was ingested from two files with different tags: one publication, two
\* authors, one edge with count 1 and year range [2023, 2023]
C6_Witness ==
    /\ Len(pubs) = 1 /\ pubs[1].dblp_key = "K1"
    /\ Cardinality({sg[3] : sg \in {x \in sightings : x[1] = "K1"}}) = 2
    /\ Len(authors) = 2
    /\ Len(collabs) = 1
    /\ collabs[1].collaboration_count = 1
    /\ collabs[1].first_collaboration_year = 2023
    /\ collabs[1].last_collaboration_year = 2023

\* a file of N entries of which exactly one has no key, the others being valid,
\* distinct and not yet persisted
OneMalformedEntry(file) ==
    LET parsed == parse_bib_file(file.content)
    IN  /\ Cardinality({i \in 1..Len(file.content) : file.content[i].ID = ""}) = 1
        /\ Len(parsed.publications) = Len(file.content) - 1
        /\ \A i \in 1..Len(parsed.publications) :
              Existing(pubs, parsed.publications[i]) = {}

\* C7 (partial failure containment): ingesting such a file persists N-1
\* publications and raises the run's error count by exactly 1, and the run
\* goes on.
C7_PartialFailureContainment ==
    [][\A t \in BagToSet(tasks), file \in Files, pick \in Picks :
          (OneMalformedEntry(file) /\ BgFile(t, file, pick))
          => /\ Len(pubs') = Len(pubs) + Len(file.content) - 1
             /\ \E t2 \in BagToSet(tasks') :
                   /\ t2.pc = "ingesting"
                   /\ t2.done = t.done \cup {file.name}
                   /\ t2.stats.errors = t.stats.errors + 1]_vars

\* C8 (cross-file identity convergence): two sightings of one roster member
\* under different name variants resolve to a single Author row.
C8_IdentityConvergence ==
    \A i, j \in 1..Len(authors) :
        (/\ i # j
         /\ authors[i].name # authors[j].name
         /\ PersonOf(authors[i].name) # NoPid)
        => PersonOf(authors[i].name) # PersonOf(authors[j].name)

\* C9 (one run at a time): at most one accepted request has a background task
\* that has not returned.
C9_OneRunAtATime == BagCardinality(tasks) <= 1

\* every entry the parser keeps of the file has a persisted key
AllKeysPersisted(file) ==
    LET parsed == parse_bib_file(file.content).publications
    IN  /\ parsed # <<>>
        /\ \A i \in 1..Len(parsed) : Existing(pubs, parsed[i]) # {}

WithoutProvenance(table) ==
    [p \in 1..Len(table) |->
        [table[p] EXCEPT !.source_pid = NoPid, !.source_pids = <<>>]]

\* C10 (duplicate sighting is side-effect-free): ingesting entries whose keys
\* are all persisted changes nothing but the skipped counter (and possibly
\* provenance): no other publication field, no Author row, association, edge,
\* venue, cached count or cache entry.
C10_DuplicateSightingFrame ==
    [][\A t \in BagToSet(tasks), file \in Files, pick \in Picks :
          (AllKeysPersisted(file) /\ BgFile(t, file, pick))
          => /\ authors' = authors
             /\ pub_authors' = pub_authors
             /\ collabs' = collabs
             /\ venues' = venues
             /\ WithoutProvenance(pubs') = WithoutProvenance(pubs)
             /\ tasks' = (tasks (-) One(t)) (+)
                    One([t EXCEPT
                           !.done = @ \cup {file.name},
                           !.stats.publications_skipped =
                               @ + Len(parse_bib_file(file.content).publications)])
      ]_vars

\* a run all of whose sightings were duplicates of publications persisted by
\* an earlier run
C10_Witness ==
    \E t \in BagToSet(tasks) :
        /\ t.stats.publications_skipped > 0
        /\ t.stats.publications_added = 0
        /\ t.stats.authors_added = 0
        /\ Len(pubs) > 0

-----------------------------------------------------------------------------

\* C11 (secondary-key fallback): an entry whose dblp_key is not persisted but
\* whose non-empty DOI is already bound to a persisted publication creates no
\* Publication row, so no two rows ever hold the same non-empty DOI.
C11_SecondaryKeyFallback ==
    \A p, q \in 1..Len(pubs) :
        (p # q /\ pubs[p].doi # "") => pubs[p].doi # pubs[q].doi

-----------------------------------------------------------------------------
(* get_or_create_author called directly on one service, with any name,     *)
(* flag, dblp_pid and faculty_data; a new service starts with empty caches *)
(* over the same database.                                                 *)

AuthorNames == {AliceName, AliceDotted, BobName}
AuthorPids == {NoPid, PidAlice}
FacultyDatas == {NoData, pid_mapping[PidAlice]}

\* DatabaseIngestionService(db): empty caches, zero statistics
Service == [NewTask EXCEPT !.pc = "ingesting"]

InitAuthor ==
    /\ authors = <<>>
    /\ pubs = <<>>
    /\ pub_authors = {}
    /\ collabs = <<>>
    /\ venues = <<>>
    /\ data_source = -1
    /\ task_status = [status |-> "idle", message |-> "", stats |-> EmptyStats]
    /\ tasks = One(Service)
    /\ accepted = 0
    /\ resolved_plain = {}
    /\ promotions = {}
    /\ sightings = {}
    /\ ingested = {}
    /\ file_steps = 0
    /\ calls = 0
    /\ parser = NewParser
    /\ parse_result = NotParsed
    /\ session = NoSession
    /\ derived = NotDerived
    /\ fetch = NoFetch
    /\ recordings = <<>>
    /\ bib_files = <<>>

\* what a call leaves behind: the authors table, the cache, the statistics
AuthorResolved(t, r) ==
    /\ authors' = r.s.authors
    /\ resolved_plain' = r.s.resolved_plain
    /\ promotions' = r.s.promotions
    /\ tasks' = (tasks (-) One(t)) (+)
                One([t EXCEPT !.author_cache = r.s.author_cache,
                              !.stats = r.s.stats])

\* one call of get_or_create_author
GetOrCreateAuthor(t, author_name, is_faculty, dblp_pid, faculty_data, pick) ==
    /\ calls < MaxCalls
    /\ calls' = calls + 1
    /\ AuthorResolved(t, get_or_create_author(ServiceState(t), author_name,
                                              is_faculty, dblp_pid, faculty_data,
                                              pick))
    /\ UNCHANGED <<pubs, pub_authors, collabs, venues, data_source, task_status,
                   accepted, sightings, ingested, file_steps, parser, parse_result,
                   session,
                   derived, fetch, recordings, bib_files>>

\* the service is dropped and a new one is constructed on the same database
NewService(t) ==
    /\ t.author_cache # EmptyCache
    /\ tasks' = (tasks (-) One(t)) (+) One(Service)
    /\ UNCHANGED <<Tables, data_source, task_status, accepted, Observations>>

NextAuthor ==
    \/ \E t \in BagToSet(tasks), author_name \in AuthorNames, is_faculty \in BOOLEAN,
          dblp_pid \in AuthorPids, faculty_data \in FacultyDatas,
          pick \in PicksFor(authors) :
          GetOrCreateAuthor(t, author_name, is_faculty, dblp_pid, faculty_data, pick)
    \/ \E t \in BagToSet(tasks) : NewService(t)

SpecAuthor == InitAuthor /\ [][NextAuthor]_vars

\* the key under which get_or_create_author caches its result
CacheKey(author_name, dblp_pid) == normalize_name(author_name) \o <<"_">> \o dblp_pid

C13_PromotionInPlace ==
    [][\A t \in BagToSet(tasks), author_name \in AuthorNames,
          dblp_pid \in AuthorPids, faculty_data \in FacultyDatas, pick \in Picks :
          GetOrCreateAuthor(t, author_name, TRUE, dblp_pid, faculty_data, pick)
          => /\ (\E i \in RowsNamed(normalize_name(author_name)) :
                    ~authors[i].is_faculty)
                => Len(authors') = Len(authors)
             /\ \A i \in RowsNamed(normalize_name(author_name)) :
                    authors'[i].is_faculty]_vars

-----------------------------------------------------------------------------
(* parse_bib_file called directly on one BibTeXParser instance, file after *)
(* file.                                                                   *)

RECURSIVE SeqsUpTo(_, _)
SeqsUpTo(S, n) ==
    IF n = 0 THEN {<<>>}
    ELSE SeqsUpTo(S, n - 1)
         \cup {Append(q, e) : q \in {x \in SeqsUpTo(S, n - 1) : Len(x) = n - 1}, e \in S}

\* the entries of a .bib file, in file order
Contents == SeqsUpTo(Entries, MaxFileLen)

InitParser ==
    /\ authors = <<>>
    /\ pubs = <<>>
    /\ pub_authors = {}
    /\ collabs = <<>>
    /\ venues = <<>>
    /\ data_source = -1
    /\ task_status = [status |-> "idle", message |-> "", stats |-> EmptyStats]
    /\ tasks = EmptyBag
    /\ accepted = 0
    /\ resolved_plain = {}
    /\ promotions = {}
    /\ sightings = {}
    /\ ingested = {}
    /\ file_steps = 0
    /\ calls = 0
    /\ parser = NewParser
    /\ parse_result = NotParsed
    /\ session = NoSession
    /\ derived = NotDerived
    /\ fetch = NoFetch
    /\ recordings = <<>>
    /\ bib_files = <<>>

\* what the caller receives
Returned(content, r) ==
    [content |-> content, publications |-> r.publications,
     total_count |-> r.total_count, duplicate_count |-> r.duplicate_count]

\* one call of parse_bib_file; the instance's trackers are not touched
ParseBibFile(content) ==
    /\ calls < MaxCalls
    /\ calls' = calls + 1
    /\ parse_result' = Returned(content, parse_bib_file(content))
    /\ parser' = parser
    /\ UNCHANGED <<Tables, data_source, task_status, tasks, accepted,
                   resolved_plain, promotions, sightings, ingested, file_steps,
                   session,
                   derived, fetch, recordings, bib_files>>

NextParser == \E content \in Contents : ParseBibFile(content)

SpecParser == InitParser /\ [][NextParser]_vars

\* the publication dict built from an entry
AsPublication(entry) ==
    [dblp_key |-> entry.ID, doi |-> Upper(entry.doi), year |-> entry.year,
     authors |-> entry.author, journal |-> entry.journal,
     booktitle |-> entry.booktitle]

\* the publications of the entries at the positions I, in file order
RECURSIVE PublicationsAt(_, _, _)
PublicationsAt(content, I, j) ==
    IF j > Len(content) THEN <<>>
    ELSE (IF j \in I THEN <<AsPublication(content[j])>> ELSE <<>>)
         \o PublicationsAt(content, I, j + 1)

\* two entries that cannot both be kept
Collide(e1, e2) ==
    \/ e1.ID = e2.ID
    \/ Upper(e1.doi) # "" /\ Upper(e1.doi) = Upper(e2.doi)

-----------------------------------------------------------------------------

\* the authors attached to publication p
AttachedTo(table, p) == {pa.author_id : pa \in {x \in table : x.publication_id = p}}

\* C15 (privileged-author flag): a publication created by create_publication has
\* has_faculty_author true exactly when one of the authors attached to it is
\* faculty.
C15_PrivilegedAuthorFlag ==
    [][\A t \in BagToSet(tasks), file \in Files, pick \in Picks :
          BgFile(t, file, pick)
          => \A p \in (Len(pubs) + 1)..Len(pubs') :
                pubs'[p].has_faculty_author
                <=> \E a \in AttachedTo(pub_authors', p) : authors'[a].is_faculty]_vars

-----------------------------------------------------------------------------

\* C17 (fatal errors abort before any write): a run that finds no dataset
\* directory, no .bib file or no roster file ends with status "error" and a
\* message, and has written no Author, Publication, Collaboration, Venue,
\* association or DataSource row.
C17_FatalBeforeAnyWrite ==
    [][\A t \in BagToSet(tasks) :
          BgFatal(t)
          => /\ task_status'.status = "error"
             /\ task_status'.message = "Error: ..."
             /\ t.done = {} /\ t.stats = EmptyStats
             /\ Tables' = Tables
             /\ data_source' = data_source
             /\ BagCardinality(tasks') = BagCardinality(tasks) - 1]_vars

\* a run failed on a fatal error after an earlier run had ingested data
C17_Witness ==
    /\ task_status.status = "error"
    /\ tasks = EmptyBag
    /\ Len(pubs) > 0
    /\ data_source = Len(pubs)

-----------------------------------------------------------------------------
(* The merge utility: merge_faculty_duplicates.py folds the non-faculty rows
   that carry a variation of a faculty member's name into the faculty row.
   Ids are positions in authors and are never reused, so a deleted row stays
   in place as DeletedAuthor. *)

DeletedAuthor ==
    [name |-> <<>>, normalized_name |-> <<>>, dblp_pid |-> NoPid,
     is_faculty |-> FALSE, email |-> None, phone |-> None, designation |-> None,
     department |-> None, total_publications |-> 0, total_collaborations |-> 0]

IsNotDot(c) == c # "."

\* name.lower(), dots and commas removed, ' '.join(name.split())
normalize_name_for_matching(name) ==
    IF name = <<>> THEN <<>> ELSE JoinSplit(SelectSeq(Lower(name), IsNotDotComma))

\* name.split()
RECURSIVE SplitParts(_, _)
SplitParts(s, cur) ==
    IF s = <<>> THEN (IF cur = <<>> THEN <<>> ELSE <<cur>>)
    ELSE IF Head(s) = " "
    THEN (IF cur = <<>> THEN <<>> ELSE <<cur>>) \o SplitParts(Tail(s), <<>>)
    ELSE SplitParts(Tail(s), Append(cur, Head(s)))

\* ' '.join(parts)
RECURSIVE JoinParts(_)
JoinParts(parts) ==
    IF parts = <<>> THEN <<>>
    ELSE IF Len(parts) = 1 THEN parts[1]
    ELSE parts[1] \o <<" ">> \o JoinParts(Tail(parts))

\* the variations of a name that has the given parts, before normalisation
Variations(name, parts, n) ==
    IF n < 2 THEN {}
    ELSE {name}
         \cup (IF n > 2 THEN {JoinParts(<<parts[1], parts[n]>>)} ELSE {})
         \cup (IF n = 2 THEN {JoinParts(<<parts[2], parts[1]>>)} ELSE {})
         \cup (IF n = 3
               THEN {JoinParts(<<parts[3], parts[1], parts[2]>>),
                     JoinParts(<<parts[3] \o <<".">>, parts[1], parts[2]>>)}
               ELSE {})
         \cup (IF Len(parts[1]) <= 2
               THEN {JoinParts(Append(Tail(parts), parts[1])),
                     JoinParts(Append(Tail(parts), SelectSeq(parts[1], IsNotDot)))}
               ELSE {})
         \cup (IF Len(parts[n]) <= 2
               THEN {JoinParts(<<parts[n]>> \o SubSeq(parts, 1, n - 1)),
                     JoinParts(<<SelectSeq(parts[n], IsNotDot)>>
                               \o SubSeq(parts, 1, n - 1))}
               ELSE {})

\* the normalised, non-empty variations (their order only orders the merges)
get_name_variations(name) ==
    {normalize_name_for_matching(v) :
        v \in Variations(name, SplitParts(name, <<>>), Len(SplitParts(name, <<>>)))}
    \ {<<>>}

\* the non-faculty rows whose normalized_name is a variation of the faculty name
find_duplicate_authors(authors_table, faculty_author) ==
    {d \in 1..Len(authors_table) :
        /\ authors_table[d] # DeletedAuthor
        /\ ~authors_table[d].is_faculty
        /\ authors_table[d].normalized_name
               \in get_name_variations(authors_table[faculty_author].name)}

\* step 1 and the association rows that go with the deleted row: an
\* association of the duplicate moves to the faculty author unless the
\* faculty author already has that publication
TransferPublications(table, faculty_author, duplicate_author) ==
    {IF pa.author_id = duplicate_author
     THEN [pa EXCEPT !.author_id = faculty_author] ELSE pa :
        pa \in {x \in table :
                  x.author_id = duplicate_author =>
                      ~\E y \in table : /\ y.publication_id = x.publication_id
                                        /\ y.author_id = faculty_author}}

\* step 2: DELETE FROM collaborations WHERE author1_id = :id OR author2_id = :id
DeleteCollaborations(collabs_table, duplicate_author) ==
    LET Keep(c) == c.author1_id # duplicate_author /\ c.author2_id # duplicate_author
    IN  SelectSeq(collabs_table, Keep)

\* merge_authors: the tables it leaves behind
merge_authors(s, faculty_author, duplicate_author) ==
    [s EXCEPT
       !.pub_authors = TransferPublications(@, faculty_author, duplicate_author),
       !.collabs = DeleteCollaborations(@, duplicate_author),
       !.authors = [@ EXCEPT
           ![duplicate_author] = DeletedAuthor,
           ![faculty_author].total_publications =
               Cardinality({pa \in TransferPublications(s.pub_authors, faculty_author,
                                                        duplicate_author) :
                              pa.author_id = faculty_author})]]

\* one merge of main()'s loop, committed; the utility is run while no
\* ingestion run is in progress
MergeAuthors(faculty_author, duplicate_author) ==
    /\ tasks = EmptyBag
    /\ authors[faculty_author].is_faculty
    /\ duplicate_author \in find_duplicate_authors(authors, faculty_author)
    /\ LET s == merge_authors([authors |-> authors, pub_authors |-> pub_authors,
                               collabs |-> collabs],
                              faculty_author, duplicate_author)
       IN  /\ authors' = s.authors
           /\ pub_authors' = s.pub_authors
           /\ collabs' = s.collabs
    /\ UNCHANGED <<pubs, venues, data_source, task_status, tasks, accepted,
                   Observations>>

NextMerge ==
    \/ Next
    \/ \E faculty_author, duplicate_author \in 1..Len(authors) :
          MergeAuthors(faculty_author, duplicate_author)

SpecMerge == Init /\ [][NextMerge]_vars

\* the authors that share an edge with author a
Neighbours(table, a) ==
    {x \in 1..Len(authors) \ {a} :
        \E k \in 1..Len(table) :
            <<table[k].author1_id, table[k].author2_id>> \in {<<a, x>>, <<x, a>>}}

\* C18: after merge_authors(faculty, duplicate) the duplicate row no longer
\* exists, every publication that was associated with the duplicate is
\* associated with the faculty author, and every author that shared a
\* collaboration edge with the duplicate shares one with the faculty author
C18_MergeCarriesEverythingOver ==
    [][\A f, d \in 1..Len(authors) :
          MergeAuthors(f, d) =>
              /\ authors'[d] = DeletedAuthor
              /\ \A pa \in pub_authors :
                    pa.author_id = d =>
                        \E qa \in pub_authors' : /\ qa.publication_id = pa.publication_id
                                                 /\ qa.author_id = f
              /\ Neighbours(collabs, d) \ {f} \subseteq Neighbours(collabs', f)]_vars

\* the row and the publications alone: the merge does move these
MergeMovesPublications ==
    [][\A f, d \in 1..Len(authors) :
          MergeAuthors(f, d) =>
              /\ authors'[d] = DeletedAuthor
              /\ \A pa \in pub_authors' : pa.author_id # d
              /\ \A pa \in pub_authors :
                    pa.author_id = d =>
                        \E qa \in pub_authors' : /\ qa.publication_id = pa.publication_id
                                                 /\ qa.author_id = f]_vars

-----------------------------------------------------------------------------
(* Direct ingest_publications calls, entry by entry, inside the session's
   transaction.  The tables authors .. venues are what is committed; the
   session sees session.s, the committed rows and its own uncommitted work.
   Another writer commits between a query of the session and its flush. *)

\* three stored authors in one entry
EntryK5 == MkEntry("K5", "", 2020, <<BobName, CarolName, AliceName>>, "", "")

\* what the calls are given to parse
TxnContents ==
    { <<EntryK1, EntryK2, EntryK4>>, <<EntryK3, EntryK5>>, <<EntryK5, EntryK3>>,
      <<EntryK5>> }

\* the year of the publication the other writer is ingesting
OtherYears == {2024}

\* Session.rollback(): the uncommitted work is gone, the session sees the
\* committed tables c; caches and statistics of the service stay
Rollback(s, c) ==
    [s EXCEPT !.authors = c.authors, !.pubs = c.pubs, !.pub_authors = c.pub_authors,
              !.collabs = c.collabs, !.venues = c.venues]

\* the edge rows of a canonical pair
EdgeRows(table, pair) ==
    {k \in 1..Len(table) :
        table[k].author1_id = pair[1] /\ table[k].author2_id = pair[2]}

\* the other writer runs the body of the pair loop for the same pair on the
\* committed tables and commits
OtherWriter(c, author1, author2, other_year) ==
    RecordPair(c, author1, author2, other_year, "lo")

\* one pair of the loop whose insert loses against the other writer: the
\* first query finds nothing, the flush fails, the except path rolls back,
\* queries again and updates the row it finds
RacePair(r, author1, author2, year, other_year, pick) ==
    IF EdgeRows(r.s.collabs, CanonicalPair(author1, author2)) # {}
    THEN [r EXCEPT !.ok = FALSE]
    ELSE [s |-> RecordPair(Rollback(r.s, OtherWriter(r.c, author1, author2,
                                                     other_year)),
                           author1, author2, year, pick),
          c |-> OtherWriter(r.c, author1, author2, other_year),
          ok |-> TRUE,
          raced |-> r.raced \cup {CanonicalPair(author1, author2)}]

\* the pair loop; the inserts of the pairs numbered in races lose
RECURSIVE RecordPairsRacing(_, _, _, _, _, _, _)
RecordPairsRacing(r, pairs, i, races, year, other_year, pick) ==
    IF i > Len(pairs) \/ ~r.ok THEN r
    ELSE RecordPairsRacing(
             IF i \in races
             THEN RacePair(r, pairs[i][1], pairs[i][2], year, other_year, pick)
             ELSE [r EXCEPT !.s = RecordPair(@, pairs[i][1], pairs[i][2], year, pick)],
             pairs, i + 1, races, year, other_year, pick)

\* after the pair loop: author statistics, publications_added
FinishRacing(r, authors_in_pub) ==
    IF ~r.ok THEN r
    ELSE
    [r EXCEPT !.s = [RefreshPublicationCounts(@, authors_in_pub)
                       EXCEPT !.stats = Bump(@, "publications_added")]]

\* create_publication of a new entry from the end of the author loop on, c
\* being the committed tables.  The races are taken in transactions that
\* have inserted no author and no venue row (the authors of a conflicting
\* pair are committed rows in any case).
FinishPublicationRacing(a, c, venue, pub_id, pub_data, races, other_year, pick) ==
    FinishRacing(
        RecordPairsRacing(
            [s |-> UpdateVenueStats(
                       [a.s EXCEPT !.pubs[pub_id].has_faculty_author =
                                       FacultyPidsInPub(pub_data) # {}],
                       venue, FacultyPidsInPub(pub_data) # {}),
             c |-> c,
             raced |-> {},
             ok |-> /\ Len(a.s.authors) = Len(c.authors)
                    /\ Len(a.s.venues) = Len(c.venues)
                    /\ races \subseteq 1..Len(AuthorPairs(a.authors_in_pub))],
            AuthorPairs(a.authors_in_pub), 1, races, pub_data.year, other_year, pick),
        a.authors_in_pub)

AddPublicationRacing(v, c, pub_data, races, other_year, pick) ==
    FinishPublicationRacing(
        AttachAuthors([v.s EXCEPT !.pubs = Append(@, NewPublication(pub_data))],
                      Len(v.s.pubs) + 1, pub_data.authors, 1, <<>>,
                      FacultyPidsInPub(pub_data), pick),
        c, v.venue, Len(v.s.pubs) + 1, pub_data, races, other_year, pick)

\* create_publication with edge races: the session's state, the committed
\* tables, and whether the races can happen as numbered
create_publication_racing(s, c, pub_data, races, other_year, pick) ==
    IF Existing(s.pubs, pub_data) # {}
    THEN [s |-> s, c |-> c, ok |-> FALSE, raced |-> {}]
    ELSE AddPublicationRacing(ResolveVenue(s, pub_data), c, pub_data, races,
                              other_year, pick)

Committed == FreshService(authors, pubs, pub_authors, collabs, venues)

InitTxn == Init

\* the committed tables become those of c
Commit(c) ==
    /\ authors' = c.authors
    /\ pubs' = c.pubs
    /\ pub_authors' = c.pub_authors
    /\ collabs' = c.collabs
    /\ venues' = c.venues

\* the session after create_publication has returned for the first entry
\* of the queue
EntryDone(s) ==
    [session EXCEPT
       !.queue = Tail(@),
       !.s = s,
       !.counted = IF s.stats.publications_added > session.s.stats.publications_added
                   THEN @ \cup {Head(session.queue).dblp_key} ELSE @]

\* a new service on the session; ingest_publications(publications, ...)
TxnBegin(content) ==
    /\ session.pc # "ingesting"
    /\ calls < MaxCalls
    /\ calls' = calls + 1
    /\ session' = [pc |-> "ingesting",
                   queue |-> TagPublications(parse_bib_file(content).publications,
                                             source_pid_of(FileOther)),
                   s |-> Committed, active |-> TRUE, counted |-> {}, raced |-> {},
                   handed |-> Len(parse_bib_file(content).publications),
                   returned |-> FALSE]
    /\ UNCHANGED <<Tables, data_source, task_status, tasks, accepted, resolved_plain,
                   promotions, sightings, ingested, file_steps, parser, parse_result,
                   derived, fetch, recordings, bib_files>>

\* one iteration of the loop, nothing failing
TxnEntry(pick) ==
    /\ session.pc = "ingesting"
    /\ session.queue # <<>>
    /\ session.active
    /\ session' = [EntryDone(create_publication(session.s, Head(session.queue), pick))
                     EXCEPT !.returned = Existing(session.s.pubs, Head(session.queue)) = {}]
    /\ UNCHANGED <<Tables, data_source, task_status, tasks, accepted, resolved_plain,
                   promotions, sightings, ingested, file_steps, calls, parser,
                   parse_result, derived, fetch, recordings, bib_files>>

\* one iteration in which another writer commits the same dblp_key between
\* the existence query and the flush of the new publication: the flush
\* fails, the transaction is rolled back, the except of create_publication
\* counts an error and nothing calls rollback()
TxnEntryKeyRace(pick) ==
    /\ session.pc = "ingesting"
    /\ session.queue # <<>>
    /\ session.active
    /\ Existing(session.s.pubs, Head(session.queue)) = {}
    /\ Commit(create_publication(Committed, Head(session.queue), pick))
    /\ session' = [session EXCEPT
                     !.queue = Tail(@),
                     !.active = FALSE,
                     !.returned = FALSE,
                     !.s = [ResolveVenue(@, Head(session.queue)).s
                              EXCEPT !.stats = Bump(@, "errors")]]
    /\ UNCHANGED <<data_source, task_status, tasks, accepted, resolved_plain,
                   promotions, sightings, ingested, file_steps, calls, parser,
                   parse_result, derived, fetch, recordings, bib_files>>

\* one iteration on a session whose transaction was rolled back by a failed
\* flush: the first query raises, the except counts an error
TxnEntryInactive ==
    /\ session.pc = "ingesting"
    /\ session.queue # <<>>
    /\ ~session.active
    /\ session' = [session EXCEPT !.queue = Tail(@),
                                  !.returned = FALSE,
                                  !.s.stats = Bump(@, "errors")]
    /\ UNCHANGED <<Tables, data_source, task_status, tasks, accepted, resolved_plain,
                   promotions, sightings, ingested, file_steps, calls, parser,
                   parse_result, derived, fetch, recordings, bib_files>>

\* what an iteration with edge races leaves behind
RacingDone(r) ==
    /\ r.ok
    /\ Commit(r.c)
    /\ session' = [EntryDone(r.s) EXCEPT !.raced = @ \cup r.raced, !.returned = TRUE]

\* one iteration in which the inserts of the pairs numbered in races lose
\* against another writer
TxnEntryEdgeRace(races, other_year, pick) ==
    /\ session.pc = "ingesting"
    /\ session.queue # <<>>
    /\ session.active
    /\ races # {}
    /\ RacingDone(create_publication_racing(session.s, Committed, Head(session.queue),
                                            races, other_year, pick))
    /\ UNCHANGED <<data_source, task_status, tasks, accepted, resolved_plain,
                   promotions, sightings, ingested, file_steps, calls, parser,
                   parse_result, derived, fetch, recordings, bib_files>>

\* the final commit: it succeeds on an active transaction; on a transaction
\* rolled back by a failed flush it raises and the except calls rollback()
TxnCommit ==
    /\ session.pc = "ingesting"
    /\ session.queue = <<>>
    /\ IF session.active THEN Commit(session.s) ELSE UNCHANGED Tables
    /\ session' = [session EXCEPT !.pc = "done", !.active = TRUE]
    /\ UNCHANGED <<data_source, task_status, tasks, accepted, resolved_plain,
                   promotions, sightings, ingested, file_steps, calls, parser,
                   parse_result, derived, fetch, recordings, bib_files>>

RaceSets == SUBSET (1..3) \ {{}}

NextTxn ==
    \/ \E content \in TxnContents : TxnBegin(content)
    \/ \E pick \in PicksFor(session.s.authors) : TxnEntry(pick)
    \/ \E pick \in PicksFor(authors) : TxnEntryKeyRace(pick)
    \/ TxnEntryInactive
    \/ \E races \in RaceSets, other_year \in OtherYears,
          pick \in PicksFor(session.s.authors) :
          TxnEntryEdgeRace(races, other_year, pick)
    \/ TxnCommit

SpecTxn == InitTxn /\ [][NextTxn]_vars

KeysOf(table) == {table[p].dblp_key : p \in 1..Len(table)}

\* C19: when an ingest_publications run has finished, every publication it
\* counted in publications_added is in the store, whatever failed while a
\* later entry of the run was ingested
C19_PriorEntriesSurvive ==
    [][TxnCommit => session.counted \subseteq KeysOf(pubs')]_vars

\* runs in which nothing fails keep what they counted
NoFailureKeepsCounted ==
    [][(TxnCommit /\ session.active /\ session.raced = {}) => session.counted \subseteq KeysOf(pubs')]_vars

\* the edge of pair in the session's view counts one more than the row the
\* other writer committed, and its year range includes year
RetriedAsUpdate(view, committed, pair, year) ==
    \E k \in EdgeRows(view, pair), j \in EdgeRows(committed, pair) :
        /\ view[k].collaboration_count = committed[j].collaboration_count + 1
        /\ Truthy(year) =>
              /\ view[k].first_collaboration_year <= year
              /\ view[k].last_collaboration_year >= year

\* C20: when the insert of a new edge loses against another writer's insert
\* of the same canonical pair, _create_collaborations ends with the existing
\* edge's collaboration_count incremented by exactly 1 and its year range
\* widened to include the year
C20_EdgeInsertRaceRetriedAsUpdate ==
    [][\A races \in RaceSets, other_year \in OtherYears, pick \in Picks :
          TxnEntryEdgeRace(races, other_year, pick) =>
              \A pair \in session'.raced \ session.raced :
                  RetriedAsUpdate(session'.s.collabs, collabs', pair,
                                  Head(session.queue).year)]_vars

\* the same for calls in which one insert loses: the retry does update
OneRaceRetriedAsUpdate ==
    [][\A races \in RaceSets, other_year \in OtherYears, pick \in Picks :
          (TxnEntryEdgeRace(races, other_year, pick) /\ Cardinality(races) = 1) =>
              \A pair \in session'.raced \ session.raced :
                  RetriedAsUpdate(session'.s.collabs, collabs', pair,
                                  Head(session.queue).year)]_vars

\* C21: when an ingest_publications run has finished, the entries handed to
\* it that are neither persisted as a publication nor skipped as a duplicate
\* are all counted in the reported errors
C21_FinalReportKeepsEveryFailure ==
    [][TxnCommit =>
          session.handed - session.s.stats.publications_skipped
              - Cardinality(session.counted \cap KeysOf(pubs'))
          <= session.s.stats.errors]_vars

\* the same for runs in which no flush fails
NoFailureReportsEveryEntry ==
    [][(TxnCommit /\ session.active /\ session.raced = {}) =>
          session.handed - session.s.stats.publications_skipped
              - Cardinality(session.counted \cap KeysOf(pubs'))
          <= session.s.stats.errors]_vars

-----------------------------------------------------------------------------
(* The run state machine of task_status["ingest"]["status"]. *)

\* a step of some background task
TaskStep ==
    \/ \E t \in BagToSet(tasks) : BgStart(t)
    \/ \E t \in BagToSet(tasks) : BgFatal(t)
    \/ \E t \in BagToSet(tasks) : BgScanOk(t)
    \/ \E t \in BagToSet(tasks), file \in Files, pick \in PicksFor(authors) :
          BgFile(t, file, pick)
    \/ \E t \in BagToSet(tasks) : BgFinish(t)

\* some background task can take a step: ENABLED <<TaskStep>>_vars
TaskStepEnabled ==
    \E t \in BagToSet(tasks) :
        \/ t.pc \in {"queued", "scanning"}
        \/ /\ t.pc = "ingesting"
           /\ \/ t.done # {}
              \/ /\ file_steps < MaxFileSteps
                 /\ \E file \in Files : file.name \notin t.done

\* the steps of Next that are steps of a background task
TaskMoved == tasks' # tasks /\ accepted' = accepted

\* BackgroundTasks runs every task it was given, and the per-file steps
\* terminate: WF_vars(TaskStep), written with TaskStepEnabled and TaskMoved
SpecLive == Spec /\ ([]<>(~TaskStepEnabled) \/ []<><<TaskMoved>>_vars)

\* TaskMoved picks out the task steps
TaskMovedIsTaskStep == [][TaskMoved <=> TaskStep]_vars

Ended == {"completed", "error"}

\* the moves of the status: a new run may begin from idle or from an ended
\* run, completed and error come from running only
StatusMove(from, to) ==
    \/ from = to
    \/ from \in {"idle"} \cup Ended /\ to \in {"starting", "running"}
    \/ from = "starting" /\ to = "running"
    \/ from = "running" /\ to \in Ended

\* the model's bound on file steps leaves a task without a file to process
OutOfFileSteps ==
    /\ file_steps = MaxFileSteps
    /\ \E t \in BagToSet(tasks) : t.pc = "ingesting" /\ t.done = {}

\* C22: the status only moves idle -> (starting ->) running -> completed or
\* error, and completed and error are reached only from running (that a run
\* which has become running ends is RunningEnds below)
C22_RunStateMachine ==
    [][StatusMove(task_status.status, task_status'.status)]_vars

\* the progress part: a run that has become running eventually reaches
\* completed or error
RunningEnds ==
    (task_status.status = "running") ~> (task_status.status \in Ended \/ OutOfFileSteps)

\* the moves of the status while at most one request has been accepted
OneRunStatusMoves ==
    [][accepted' <= 1 => StatusMove(task_status.status, task_status'.status)]_vars

-----------------------------------------------------------------------------
(* The provenance tag of a file name, as parse_all_bib_files derives it and
   as ingest_data_background derives it (source_pid_of above). *)

MaxNameLen == 5

\* what a file stem is made of: a number, a single digit, a name, '-' and '_'
StemTokens == {"94", "1", "bob", "-", "_"}

Stems == SeqsUpTo(StemTokens, MaxNameLen)

\* a plausible slip: a trailing name is removed from two parts on
parser_source_pid_from_two(filename) ==
    LET parts0 == SplitUnderscore(filename, <<>>)
        parts1 == IF Len(parts0) >= 2
                  THEN (IF IsAlphaPart(parts0[Len(parts0)])
                        THEN DropLast(parts0) ELSE parts0)
                  ELSE parts0
        parts2 == IF Len(parts1) >= 2 /\ IsSingleDigit(parts1[Len(parts1)])
                  THEN DropLast(parts1) ELSE parts1
    IN  ReplaceFirstUnderscore(JoinUnderscore(parts2))

\* bibtex_parser.py: source_pid of a file stem in parse_all_bib_files
parser_source_pid(filename) ==
    LET parts0 == SplitUnderscore(filename, <<>>)
        parts1 == IF Len(parts0) >= 3
                  THEN (IF IsAlphaPart(parts0[Len(parts0)])
                        THEN DropLast(parts0) ELSE parts0)
                  ELSE parts0
        parts2 == IF Len(parts1) >= 2 /\ IsSingleDigit(parts1[Len(parts1)])
                  THEN DropLast(parts1) ELSE parts1
    IN  ReplaceFirstUnderscore(JoinUnderscore(parts2))

InitTag == Init

\* both derivations applied to one file stem; a derivation keeps no state,
\* so a behaviour holds one
DeriveTag(filename) ==
    /\ derived = NotDerived
    /\ derived' = [by |-> "ingest", filename |-> filename, pid |-> <<>>,
                   admin |-> source_pid_of(filename),
                   parser |-> parser_source_pid(filename)]
    /\ UNCHANGED <<Tables, data_source, task_status, tasks, accepted, resolved_plain,
                   promotions, sightings, ingested, file_steps, calls, parser,
                   parse_result, session, fetch, recordings, bib_files>>

NextTag == \E filename \in Stems : DeriveTag(filename)

SpecTag == InitTag /\ [][NextTag]_vars

\* the parts of a stem without a trailing name (from 3 parts on) and then
\* without a trailing single digit (from 2 parts on)
StrippedParts(parts) ==
    LET n == Len(parts)
        named == n >= 3 /\ IsAlphaPart(parts[n])
        m == IF named THEN n - 1 ELSE n
        marked == m >= 2 /\ IsSingleDigit(parts[m])
    IN  SubSeq(parts, 1, IF marked THEN m - 1 ELSE m)

\* the first '_' of a stem is the only one that becomes '/'
SlashedOnce(stem, tag) ==
    /\ Len(tag) = Len(stem)
    /\ \A i \in 1..Len(stem) :
          IF stem[i] = "_" /\ \A j \in 1..(i - 1) : stem[j] # "_"
          THEN tag[i] = "/" ELSE tag[i] = stem[i]

\* C23: the tag is a function of the file name alone: a trailing alphabetic
\* name is stripped when there are at least 3 parts, then a trailing single
\* digit, then the first '_' becomes '/'; parse_all_bib_files and
\* ingest_data_background give the same tag for every file name
C23_TagDerivationAgrees ==
    /\ derived.admin = derived.parser
    /\ derived.admin = source_pid_of(derived.filename)
    /\ SlashedOnce(JoinUnderscore(StrippedParts(SplitUnderscore(derived.filename, <<>>))),
                   derived.admin)

C23_Witness ==
    /\ derived.filename = <<"94", "_", "1", "_", "bob">>
    /\ derived.admin = <<"94">>
    /\ derived.parser = <<"94">>

-----------------------------------------------------------------------------
(* parse_bib_file called on a path: the file is opened as UTF-8 and read   *)
(* by bibtexparser.load before the first entry is looked at.               *)

\* a field value holding a byte that is not valid UTF-8 (a Latin-1 e-acute)
NotUtf8 == "0xE9"

\* a well-formed entry stored in another encoding
EntryNotUtf8 == MkEntry("K6", "", 2020, <<CarolName>>, NotUtf8, "")

StoredEntries == Entries \cup {EntryNotUtf8}

\* what a .bib file on disk may hold
StoredContents == SeqsUpTo(StoredEntries, MaxFileLen)

\* the entry's text decodes under encoding='utf-8'
Decodes(entry) == entry.journal # NotUtf8

\* bibtexparser.load(bibfile, parser): bibfile.read() raises UnicodeDecodeError
\* as soon as one byte of the file does not decode
bibtexparser_load(content) ==
    [raised |-> \E i \in 1..Len(content) : ~Decodes(content[i]),
     entries |-> content]

\* the try block of parse_bib_file and its except: whatever was collected
\* before the exception is returned
parse_bib_file_of_path(content) ==
    LET bib_database == bibtexparser_load(content)
    IN  IF bib_database.raised
        THEN [publications |-> <<>>, total_count |-> 0, duplicate_count |-> 0]
        ELSE parse_bib_file(bib_database.entries)

InitLoad == InitParser

ParseStoredFile(content) ==
    /\ calls < MaxCalls
    /\ calls' = calls + 1
    /\ parse_result' = Returned(content, parse_bib_file_of_path(content))
    /\ parser' = parser
    /\ UNCHANGED <<Tables, data_source, task_status, tasks, accepted,
                   resolved_plain, promotions, sightings, ingested, file_steps,
                   session, derived, fetch, recordings, bib_files>>

NextLoad == \E content \in StoredContents : ParseStoredFile(content)

SpecLoad == InitLoad /\ [][NextLoad]_vars

\* the entries of the file that can be processed
Processable(content) == SelectSeq(content, Decodes)

\* C24 (entry-level error boundary): whatever the file holds, parse_bib_file
\* returns the publications of all its entries that can be processed, those
\* after a failing entry included, and counts every entry of the file, the
\* failing ones among the skipped.
C24_EntryErrorBoundary ==
    LET content == parse_result.content
    IN  /\ parse_result.publications = parse_bib_file(Processable(content)).publications
        /\ parse_result.total_count = Len(content)
        /\ parse_result.duplicate_count = Len(content) - Len(parse_result.publications)

\* a file in which every entry decodes is returned in full
AllDecodeReturnsAll ==
    LET content == parse_result.content
    IN  Processable(content) = content
            => /\ parse_result.publications = parse_bib_file(content).publications
               /\ parse_result.total_count = Len(content)
               /\ parse_result.duplicate_count = Len(content) - Len(parse_result.publications)

\* a file with one failing entry between two valid ones came back empty
EntryFailureEmptiesFile ==
    /\ parse_result.content = <<EntryK1, EntryNotUtf8, EntryK2>>
    /\ parse_result.publications = <<>>
    /\ parse_result.total_count = 0

-----------------------------------------------------------------------------
(* _create_collaborations called directly, publication after publication,  *)
(* with the de-duplicated author list and the year of each.                *)

\* three authors already in the table
CollabAuthors ==
    LET s0 == FreshService(<<>>, <<>>, {}, <<>>, <<>>)
        s1 == get_or_create_author(s0, AliceName, FALSE, NoPid, NoData, "lo").s
        s2 == get_or_create_author(s1, BobName, FALSE, NoPid, NoData, "lo").s
    IN  get_or_create_author(s2, CarolName, FALSE, NoPid, NoData, "lo").s.authors

\* publication['year'] as _safe_int returns it: None, or the integer written
\* in the entry's year field
CollabYears == {NoYear, 0, 2021, 2023}

\* authors_in_pub: no author twice
AuthorLists ==
    {q \in SeqsUpTo(1..Len(CollabAuthors), Len(CollabAuthors)) :
        \A i, j \in 1..Len(q) : i # j => q[i] # q[j]}

InitCollab ==
    /\ authors = CollabAuthors
    /\ pubs = <<>>
    /\ pub_authors = {}
    /\ collabs = <<>>
    /\ venues = <<>>
    /\ data_source = -1
    /\ task_status = [status |-> "idle", message |-> "", stats |-> EmptyStats]
    /\ tasks = EmptyBag
    /\ accepted = 0
    /\ resolved_plain = {}
    /\ promotions = {}
    /\ sightings = {}
    /\ ingested = {}
    /\ file_steps = 0
    /\ calls = 0
    /\ parser = NewParser
    /\ parse_result = NotParsed
    /\ session = NoSession
    /\ derived = NotDerived
    /\ fetch = NoFetch
    /\ recordings = <<>>
    /\ bib_files = <<>>

\* what the call leaves in the tables
CollaborationsCreated(s) ==
    /\ authors' = s.authors
    /\ collabs' = s.collabs

\* one call of _create_collaborations
CreateCollaborations(author_list, year) ==
    /\ calls < MaxCalls
    /\ calls' = calls + 1
    /\ CollaborationsCreated(
          create_collaborations(FreshService(authors, pubs, pub_authors, collabs, venues),
                                author_list, year, "lo"))
    /\ recordings' = Append(recordings, [authors |-> author_list, year |-> year])
    /\ UNCHANGED <<pubs, pub_authors, venues, data_source, task_status, tasks,
                   accepted, resolved_plain, promotions, sightings, ingested,
                   file_steps, parser, parse_result, session, derived, fetch,
                   bib_files>>

NextCollab ==
    \E author_list \in AuthorLists, year \in CollabYears :
        CreateCollaborations(author_list, year)

SpecCollab == InitCollab /\ [][NextCollab]_vars

\* the years of the recorded joint publications of a pair that carry a year
YearsRecorded(pair) ==
    {recordings[i].year : i \in {j \in 1..Len(recordings) :
        /\ recordings[j].year # NoYear
        /\ \E a, b \in SeqToSet(recordings[j].authors) :
              a # b /\ CanonicalPair(a, b) = pair}}

\* the year range of every edge is the minimum and maximum of the given years
YearRangeIsMinMax ==
    \A k \in 1..Len(collabs) :
        LET years == YearsRecorded(<<collabs[k].author1_id, collabs[k].author2_id>>)
        IN  IF years = {}
            THEN /\ collabs[k].first_collaboration_year = NoYear
                 /\ collabs[k].last_collaboration_year = NoYear
            ELSE /\ collabs[k].first_collaboration_year = Min(years)
                 /\ collabs[k].last_collaboration_year = Max(years)

\* C25 (year range of an edge): after any sequence of co-authorship
\* recordings, first_collaboration_year and last_collaboration_year of every
\* edge are the minimum and the maximum of the years of the recorded joint
\* publications that carry a year, both null if none does.
C25_YearRangeOfEdge == YearRangeIsMinMax

\* as long as no recorded year is 0 the range is the minimum and the maximum
NonZeroYearsRangeIsMinMax ==
    (\A i \in 1..Len(recordings) : recordings[i].year # 0) => YearRangeIsMinMax

\* a recording without a year leaves the range of every edge as it was
NoYearKeepsRange ==
    [][\A author_list \in AuthorLists :
          CreateCollaborations(author_list, NoYear)
          => \A k \in 1..Len(collabs) :
                /\ collabs'[k].first_collaboration_year = collabs[k].first_collaboration_year
                /\ collabs'[k].last_collaboration_year = collabs[k].last_collaboration_year]_vars

\* a pair recorded in year 0 and then in 2023 has a range starting in 2023
YearZeroForgotten ==
    /\ recordings = <<[authors |-> <<1, 2>>, year |-> 0],
                      [authors |-> <<2, 1>>, year |-> 2023]>>
    /\ collabs[1].first_collaboration_year = 2023

-----------------------------------------------------------------------------
(* get_or_create_author called directly with the roster record of a        *)
(* member before and after the roster was edited.                          *)

\* the roster record of a member after an edit of email and phone
RevisedData == [pid_mapping[PidAlice] EXCEPT !.email = "alice@y", !.phone = "041"]

ProfileDatas == FacultyDatas \cup {RevisedData}

ProfileFields == {"email", "phone", "designation"}

InitProfile == InitAuthor

NextProfile ==
    \/ \E t \in BagToSet(tasks), author_name \in AuthorNames, is_faculty \in BOOLEAN,
          dblp_pid \in AuthorPids, faculty_data \in ProfileDatas,
          pick \in PicksFor(authors) :
          GetOrCreateAuthor(t, author_name, is_faculty, dblp_pid, faculty_data, pick)
    \/ \E t \in BagToSet(tasks) : NewService(t)

SpecProfile == InitProfile /\ [][NextProfile]_vars

PopulatedNeverNulled ==
    [][\A i \in 1..Len(authors), field \in ProfileFields :
          authors[i][field] # None => authors'[i][field] # None]_vars

\* a null profile field of a promoted author is filled from the faculty data
NullFieldBackfilled ==
    [][\A t \in BagToSet(tasks), author_name \in AuthorNames,
          dblp_pid \in AuthorPids, faculty_data \in ProfileDatas, pick \in Picks :
          (/\ GetOrCreateAuthor(t, author_name, TRUE, dblp_pid, faculty_data, pick)
           /\ Len(authors') = Len(authors))
          => \A i \in 1..Len(authors), field \in ProfileFields :
                (authors[i][field] = None /\ authors'[i][field] # None)
                => authors'[i][field] = faculty_data[field]]_vars

\* an author promoted with the revised record lost the email it had
EmailReplaced ==
    /\ Len(authors) = 1
    /\ authors[1].is_faculty
    /\ authors[1].email = "alice@y"
    /\ calls = 2

-----------------------------------------------------------------------------
(* fetch_dblp_bib: one call, the server answering each request with any    *)
(* status or the request raising.                                          *)

MaxRetries == 4

\* response.status_code, or the exception raised by requests.get
Responses == {"200", "429", "404", "503", "exception"}

\* a plausible slip: every status other than 200 is retried
fetch_attempt_retry_any(f, response) ==
    LET sent == [f EXCEPT !.requests = @ + 1,
                          !.waited = IF f.attempt > 0 THEN @ + 5 * (f.attempt + 1) ELSE @,
                          !.responses = Append(@, response)]
    IN  IF response = "200"
        THEN [sent EXCEPT !.pc = "returned", !.result = "text"]
        ELSE IF f.attempt < f.max_retries - 1
        THEN [sent EXCEPT !.attempt = @ + 1]
        ELSE [sent EXCEPT !.pc = "returned", !.result = "None"]

\* one iteration of 'for attempt in range(max_retries)'
fetch_attempt(f, response) ==
    LET sent == [f EXCEPT !.requests = @ + 1,
                          !.waited = IF f.attempt > 0 THEN @ + 5 * (f.attempt + 1) ELSE @,
                          !.responses = Append(@, response)]
    IN  IF response = "200"
        THEN [sent EXCEPT !.pc = "returned", !.result = "text"]
        ELSE IF response = "429"
        THEN IF f.attempt < f.max_retries - 1
             THEN [sent EXCEPT !.attempt = @ + 1]
             ELSE [sent EXCEPT !.pc = "returned", !.result = "None"]
        ELSE IF response = "exception"
        THEN IF f.attempt < f.max_retries - 1
             THEN [sent EXCEPT !.attempt = @ + 1]
             ELSE [sent EXCEPT !.pc = "returned", !.result = "None"]
        ELSE [sent EXCEPT !.pc = "returned", !.result = "None"]

InitFetch == Init

NotFetch == <<authors, pubs, pub_authors, collabs, venues, data_source, task_status, tasks, accepted, resolved_plain, promotions, sightings, ingested, file_steps, calls, parser, parse_result, session, derived, recordings, bib_files>>

\* fetch_dblp_bib(pid, max_retries) is called
FetchCall(max_retries) ==
    /\ fetch.pc = "none"
    /\ fetch' = [fetch EXCEPT !.pc = "loop", !.max_retries = max_retries]
    /\ UNCHANGED NotFetch

\* the next iteration of the loop, the request ending in the given way
FetchAttempt(response) ==
    /\ fetch.pc = "loop"
    /\ fetch.attempt < fetch.max_retries
    /\ fetch' = fetch_attempt(fetch, response)
    /\ UNCHANGED NotFetch

\* range(max_retries) is exhausted: the return after the loop
FetchLoopEnd ==
    /\ fetch.pc = "loop"
    /\ fetch.attempt >= fetch.max_retries
    /\ fetch' = [fetch EXCEPT !.pc = "returned", !.result = "None"]
    /\ UNCHANGED NotFetch

FetchStep == (\E response \in Responses : FetchAttempt(response)) \/ FetchLoopEnd

NextFetch ==
    \/ \E max_retries \in 0..MaxRetries : FetchCall(max_retries)
    \/ \E response \in Responses : FetchAttempt(response)
    \/ FetchLoopEnd

SpecFetch == InitFetch /\ [][NextFetch]_vars

\* the loop is never suspended for ever: sleep and requests.get return
SpecFetchLive == SpecFetch /\ WF_vars(FetchStep)

Retried == {"429", "exception"}

\* C27 (bounded fetch retry): a call never sends more than max_retries
\* requests; a request answered 200 returns the body; a request is followed
\* by another one, after a wait, only if it was answered 429 or raised and
\* attempts are left; any other status, and the last attempt whatever its
\* outcome short of 200, returns None.
C27_BoundedFetchRetry ==
    [][\A response \in Responses :
          FetchAttempt(response)
          => /\ fetch'.requests = fetch.requests + 1
             /\ fetch'.requests <= fetch.max_retries
             /\ fetch.requests > 0 => /\ fetch.responses[fetch.requests] \in Retried
                                      /\ fetch'.waited > fetch.waited
             /\ response = "200" => fetch'.pc = "returned" /\ fetch'.result = "text"
             /\ response \notin Retried \cup {"200"}
                   => fetch'.pc = "returned" /\ fetch'.result = "None"
             /\ (response \in Retried /\ fetch'.requests < fetch.max_retries)
                   => fetch'.pc = "loop"
             /\ (response \in Retried /\ fetch'.requests = fetch.max_retries)
                   => fetch'.pc = "returned" /\ fetch'.result = "None"]_vars

\* a call returned the body at its third request, after a 429 and an exception
\* and two waits
C27_Witness ==
    /\ fetch.pc = "returned"
    /\ fetch.max_retries = 3
    /\ fetch.responses = <<"429", "exception", "200">>
    /\ fetch.result = "text"
    /\ fetch.waited = 25

\* every call returns
FetchReturns == (fetch.pc = "loop") ~> (fetch.pc = "returned")

\* whatever was returned, at most max_retries requests were sent
RequestsBounded == fetch.requests <= fetch.max_retries

-----------------------------------------------------------------------------
(* The three outcome counters of a service. *)

\* the create_publication calls of the session's service that have returned
CallsReturned == session.handed - Len(session.queue)

Outcomes == {"publications_added", "publications_skipped", "errors"}

\* create_publication has returned for the first entry of the queue
EntryReturned ==
    /\ session.pc = "ingesting"
    /\ session'.pc = "ingesting"
    /\ session.queue # <<>>
    /\ session'.queue = Tail(session.queue)

\* C28 (counter accounting): publications_added + publications_skipped +
\* errors of a service is the number of its create_publication calls that
\* have returned; every call adds 1 to exactly one of the three and returns
\* True exactly if that one is publications_added.
C28_CounterAccounting ==
    /\ [](session.s.stats.publications_added + session.s.stats.publications_skipped
              + session.s.stats.errors = CallsReturned)
    /\ [][EntryReturned
          => /\ \E outcome \in Outcomes :
                   /\ session'.s.stats[outcome] = session.s.stats[outcome] + 1
                   /\ \A other \in Outcomes \ {outcome} :
                         session'.s.stats[other] = session.s.stats[other]
                   /\ session'.returned <=> outcome = "publications_added"]_vars

\* one service has seen a call end in each of the three ways
C28_Witness ==
    /\ session.pc = "done"
    /\ session.handed = 3
    /\ session.s.stats.publications_added = 1
    /\ session.s.stats.publications_skipped = 1
    /\ session.s.stats.errors = 1

-----------------------------------------------------------------------------
(* The fetch step stores the bibliography of a faculty external id under a *)
(* file name; ingestion derives the provenance tag from that name.         *)

\* the two halves of an external id "a/b"
PidHeads == {"94", "01", "k", "1"}
PidTails == {"4013", "1744", "bob", "1", "2"}

FetchedPids == {<<a, "/", b>> : a \in PidHeads, b \in PidTails}

\* f"{idx:02d}" of the admin fetch task
IndexTokens == {"01", "02", "03"}

\* suffix of fetch_all_publications: "" for a single match, else f"_{idx}"
Suffixes == {<<>>, <<"_", "1">>, <<"_", "2">>}

\* pid.replace('/', '_')
sanitize_pid_for_filename(pid) == [i \in 1..Len(pid) |-> IF pid[i] = "/" THEN "_" ELSE pid[i]]

\* admin fetch task: the stem of f"{idx:02d}_{sanitized_pid}.bib"
admin_fetch_stem(idx, pid) == <<idx, "_">> \o sanitize_pid_for_filename(pid)

\* save_bib_file: the stem of f"{safe_pid}{suffix}.bib"
save_bib_file_stem(pid, suffix) == sanitize_pid_for_filename(pid) \o suffix

InitStore == Init

\* the tag ingestion derives from a stored file
TagOfStored(by, pid, filename) ==
    /\ derived = NotDerived
    /\ derived' = [by |-> by, filename |-> filename, pid |-> pid,
                   admin |-> source_pid_of(filename),
                   parser |-> parser_source_pid(filename)]
    /\ UNCHANGED <<Tables, data_source, task_status, tasks, accepted, resolved_plain,
                   promotions, sightings, ingested, file_steps, calls, parser,
                   parse_result, session, fetch, recordings, bib_files>>

\* fetch_dblp_data_background stores the bibliography of pid, then ingestion
StoreByAdminFetch(idx, pid) == TagOfStored("admin", pid, admin_fetch_stem(idx, pid))

\* fetch_all_publications stores the bibliography of pid, then ingestion
StoreByFetchAll(pid, suffix) == TagOfStored("fetch_all", pid, save_bib_file_stem(pid, suffix))

NextStore ==
    \/ \E idx \in IndexTokens, pid \in FetchedPids : StoreByAdminFetch(idx, pid)
    \/ \E pid \in FetchedPids, suffix \in Suffixes : StoreByFetchAll(pid, suffix)

SpecStore == InitStore /\ [][NextStore]_vars

\* C29 (fetch/ingest file name round trip): the provenance tag derived from
\* the name under which either fetch step stored the bibliography of the
\* external id P = "a/b" is P.
C29_FileNameRoundTrip ==
    derived.by \in {"admin", "fetch_all"}
        => derived.admin = derived.pid /\ derived.parser = derived.pid

\* names written by fetch_all_publications give the id back unless its
\* second half is a single digit
FetchAllRoundTrip ==
    (derived.by = "fetch_all" /\ ~IsSingleDigit(<<derived.pid[3]>>))
        => derived.admin = derived.pid /\ derived.parser = derived.pid

\* no name written by the admin fetch task gives the id back
AdminFetchNeverRoundTrips == derived.by = "admin" => derived.admin # derived.pid

\* the file of the first roster member, stored by the admin fetch task
IndexTakenForHead ==
    /\ derived.by = "admin"
    /\ derived.pid = PidAlice
    /\ derived.filename = <<"01", "_", "94", "_", "4013">>
    /\ derived.admin = <<"01", "/", "94", "_", "4013">>

-----------------------------------------------------------------------------
(* A whole admin ingest run on an empty database, the dataset directory    *)
(* being enumerated by glob in some order.                                 *)

MaxDirFiles == 3

\* list(dataset_path.glob("*.bib")): the files of a directory in any order
Enumerations ==
    {q \in SeqsUpTo(Files, MaxDirFiles) :
        q # <<>> /\ \A i, j \in 1..Len(q) : i # j => q[i].name # q[j].name}

\* the loop over bib_files, one service for the whole run
RECURSIVE IngestFiles(_, _, _)
IngestFiles(s, files, pick) ==
    IF files = <<>> THEN s
    ELSE IngestFiles(IngestOneFile(s, Head(files), pick), Tail(files), pick)

EmptyDatabase == FreshService(<<>>, <<>>, {}, <<>>, <<>>)

InitRun == Init

\* what the run leaves behind: the tables, the DataSource row, the status
RunCompleted(s) ==
    /\ Commit(s)
    /\ data_source' = s.stats.publications_added
    /\ task_status' = [status |-> "completed",
                        message |-> "Ingestion completed successfully",
                        stats |-> s.stats]
    /\ resolved_plain' = s.resolved_plain
    /\ promotions' = s.promotions

\* ingest_data_background from its first to its last statement
IngestDataBackground(files) ==
    /\ bib_files = <<>>
    /\ bib_files' = files
    /\ RunCompleted(IngestFiles(EmptyDatabase, files, "lo"))
    /\ UNCHANGED <<tasks, accepted, sightings, ingested, file_steps, calls, parser,
                   parse_result, session, derived, fetch, recordings>>

NextRun == \E files \in Enumerations : IngestDataBackground(files)

SpecRun == InitRun /\ [][NextRun]_vars

\* an author row without its id
AuthorView(s, id) ==
    [normalized_name |-> s.authors[id].normalized_name,
     is_faculty |-> s.authors[id].is_faculty,
     dblp_pid |-> s.authors[id].dblp_pid]

\* the store without row ids: publications with their provenance, authors
\* with faculty flag and external id, edges with their counts
StoreView(s) ==
    [publications |-> {[dblp_key |-> s.pubs[p].dblp_key,
                        source_pid |-> s.pubs[p].source_pid,
                        source_pids |-> s.pubs[p].source_pids] : p \in 1..Len(s.pubs)},
     authors |-> {AuthorView(s, id) : id \in 1..Len(s.authors)},
     edges |-> {[between |-> {AuthorView(s, s.collabs[k].author1_id),
                              AuthorView(s, s.collabs[k].author2_id)},
                 collaboration_count |-> s.collabs[k].collaboration_count] :
                    k \in 1..Len(s.collabs)}]

\* the other orders in which the same files may be enumerated
Reorderings(files) == {q \in Enumerations : SeqToSet(q) = SeqToSet(files)}

\* C30 (file-order independence): the store an admin ingest run ends with
\* (publications with provenance, authors with faculty flag and external
\* id, edges with counts) is the one it ends with for every other order of
\* the same files.
C30_FileOrderIndependence ==
    \A files \in Reorderings(bib_files) :
        StoreView(IngestFiles(EmptyDatabase, files, "lo")) = StoreView(Committed)

\* the set of publication keys stored does not depend on the order
KeysOrderIndependent ==
    \A files \in Reorderings(bib_files) :
        KeysOf(IngestFiles(EmptyDatabase, files, "lo").pubs) = KeysOf(pubs)

\* K1 is in the files of two roster members; it carries the tag of the file
\* enumerated first
FirstFileTagsSharedEntry ==
    /\ bib_files = <<MkFile(FileBob, <<EntryK2, EntryK1, EntryK3>>),
                     MkFile(FileAlice, <<EntryK1, EntryNoKey, EntryK4>>)>>
    /\ \E p \in 1..Len(pubs) : pubs[p].dblp_key = "K1" /\ pubs[p].source_pid = PidBob

====
